---- MODULE Spec2Model ----
(***************************************************************************)
(* Proxy collection pipeline: the reachability prober                      *)
(* (validator/validator.py) and the deduplicator (parser/parser.py,        *)
(* models/proxy_model.py).                                                 *)
(*                                                                         *)
(* Spec      : one run of ProxyValidator.validate_proxies_concurrently.    *)
(* DedupSpec : ProxyParser.deduplicate_proxies, run on an input list and   *)
(*             then on its own output.                                     *)
(* KeySpec, RankSpec, MainSpec, ParserSpec, FetcherSpec, ConnSpec : the    *)
(*             identity key, the ranking, main, parse_raw_content, the     *)
(*             fetcher and the connection of the transport check.          *)
(* FairSpec  : Spec run by a fair event loop.                              *)
(***************************************************************************)
EXTENDS Integers, Sequences, FiniteSets, TLC

\* ------------------------------------------------------------------ bounds

\* Longest input list handed to the prober.
MaxProxies == 2
\* Largest value drawn for config.MAX_CONCURRENT_CHECKS.
MaxCeiling == 2
\* Longest input list handed to the deduplicator.
MaxDedupLen == 3

\* Most records in the list the ranking step is given.
MaxRankLen == 3

\* Most sources main fetches from.
MaxSources == 2

\* Most lines in a flat list of descriptors given to the parser.
MaxLines == 2

\* Deepest nesting of base64 in base64 given to the parser.
MaxNesting == 4

\* ------------------------------------------------------------- prober state

VARIABLES
    config,          \* the values validator.py reads from the config module
    ProxyConnector,  \* "None" when aiohttp_socks failed to import, else "installed"
    proxies,         \* the input list: <<[shape, type], ...>>
    delay,           \* per record: the attribute written by proxy.delay = latency
    last_checked,    \* per record: Proxy.last_checked
    pc,              \* per check task: where limited_validate(task) stands
    tcp,             \* per record: outcome of _check_tcp_latency
    http,            \* per record: outcome of _check_http_access
    result,          \* per check task: what the task ended with
    semaphore,       \* asyncio.Semaphore._value: free permits
    completed,       \* finished tasks not yet handed out by asyncio.as_completed
    results,         \* the list validate_proxies_concurrently builds
    caller           \* validate_proxies_concurrently: "collecting", "returned", "raised"

proberVars == <<config, ProxyConnector, proxies, delay, last_checked, pc, tcp, http,
                result, semaphore, completed, results, caller>>

\* -------------------------------------------------------- deduplicator state

VARIABLES
    dedup_proxies,   \* the argument of the running deduplicate_proxies call
    pending,         \* what the for loop of that call has still to visit
    seen_keys,       \* its local seen_keys
    deduplicated,    \* its local deduplicated
    dedup_pc,        \* "idle", "loop", "returned"
    call_no,         \* 1: the call on the input, 2: the call on the first result
    first_result     \* the list the first call returned

dedupVars == <<dedup_proxies, pending, seen_keys, deduplicated, dedup_pc, call_no,
               first_result>>

\* ------------------------------------------------------- identity key state

VARIABLES
    key_records,     \* the two Proxy objects whose keys are compared
    key_values       \* the keys generate_key has returned so far, in call order

keyVars == <<key_records, key_values>>

\* --------------------------------------------------------------- main state

VARIABLES
    main_pc,               \* where main() stands
    top_n_proxies,         \* config.TOP_N_PROXIES: <<>> for None, else <<n>>
    raw_contents,          \* main's raw_contents
    all_proxies,           \* main's all_proxies
    deduplicated_proxies,  \* main's deduplicated_proxies
    validated_proxies,     \* main's validated_proxies
    sorted_proxies,        \* main's sorted_proxies
    output_proxies,        \* main's output_proxies
    stages                 \* the pipeline stages main has called, in call order

mainVars == <<main_pc, top_n_proxies, raw_contents, all_proxies, deduplicated_proxies,
              validated_proxies, sorted_proxies, output_proxies, stages>>

\* ------------------------------------------------------------- parser state

VARIABLES
    parse_pc,        \* where the call of parse_raw_content stands
    proxy_class,     \* the class the name Proxy is bound to in the parser
    parse_content,   \* the content argument of the call
    parse_outcome    \* what the call has come to: a returned list or an exception

parserVars == <<parse_pc, proxy_class, parse_content, parse_outcome>>

\* ------------------------------------------------------------ fetcher state

VARIABLES
    fetch_pc,          \* where main stands between the fetch and the end of decoding
    fetch_events,      \* per source: what its request came to
    fetch_results,     \* per source: the result of its fetch_url task
    fetched_contents,  \* what fetch_all_proxy_sources returned: (content, url) pairs
    decoded_pairs      \* the (content, url) pairs main has handed to the parser

fetcherVars == <<fetch_pc, fetch_events, fetch_results, fetched_contents, decoded_pairs>>

\* ---------------------------------------------------------- connection state

VARIABLES
    conn_pc,        \* per transport check: where _check_tcp_latency stands
    writer,         \* per transport check: its local writer, 0 while unbound
    connections,    \* the connections opened so far, each with its state
    conn_result,    \* per transport check: what _check_tcp_latency ended with
    tearing_down    \* the run is being torn down and cancels its tasks

connVars == <<conn_pc, writer, connections, conn_result, tearing_down>>

\* The state of the components other than the prober and the deduplicator.
restVars == <<keyVars, mainVars, parserVars, fetcherVars, connVars>>

\* What the steps of one component leave alone.
keyOthers == <<proberVars, dedupVars, mainVars, parserVars, fetcherVars, connVars>>

mainOthers == <<proberVars, dedupVars, keyVars, parserVars, fetcherVars, connVars>>

parserOthers == <<proberVars, dedupVars, keyVars, mainVars, fetcherVars, connVars>>

fetcherOthers == <<proberVars, dedupVars, keyVars, mainVars, parserVars, connVars>>

connOthers == <<proberVars, dedupVars, keyVars, mainVars, parserVars, fetcherVars>>

vars == <<proberVars, dedupVars, restVars>>

\* Protocol kinds: the ones _check_http_access drives itself (its if and elif
\* branches), and kinds that reach its else branch. Every kind other than the
\* three forward-proxy ones takes that else branch; three of them stand for all.
ForwardProxyTypes == {"http", "https", "socks5"}
TunnelTypes == {"ss", "vmess", "trojan"}
ProxyTypes == ForwardProxyTypes \cup TunnelTypes

\* What a record handed to validate_proxy can look like:
\*   "probe"      exposes type, server, port, ps and all three are truthy;
\*   "incomplete" exposes them but one of type, server, port is empty;
\*   "model"      an instance of models.proxy_model.Proxy as written, whose
\*                fields are proxy_type and name: reading .type raises.
ProbeInputs ==
    {[shape |-> "probe", type |-> t] : t \in ProxyTypes}
        \cup {[shape |-> "incomplete", type |-> "none"], [shape |-> "model", type |-> "none"]}

\* config.ENABLE_HTTP_CHECK is read by validate_proxy; config.py does not define
\* it, so next to True and False the read can raise AttributeError.
HttpCheckSettings == {"True", "False", "undefined"}

\* The two except clauses of _check_tcp_latency: asyncio.TimeoutError, and any
\* other Exception (refused connection, DNS failure, error while closing).
TcpFailures == {"timeout", "error"}
\* The ways the GET of _check_http_access fails: a status other than 200 (one
\* inside 2xx, one outside), asyncio.TimeoutError, and a connection error
\* (ClientProxyConnectionError or any other Exception).
HttpFailures == {"status_204", "status_404", "timeout", "error"}

Tasks == 1..Len(proxies)

InFlightPcs == {"admitted", "tcp", "http"}

ProberInit ==
    /\ config \in [MAX_CONCURRENT_CHECKS : 1..MaxCeiling,
                   ENABLE_HTTP_CHECK : HttpCheckSettings]
    /\ ProxyConnector \in {"None", "installed"}
    /\ proxies \in UNION {[1..n -> ProbeInputs] : n \in 0..MaxProxies}
    /\ delay = [i \in Tasks |-> "None"]
    /\ last_checked = [i \in Tasks |-> "None"]
    /\ pc = [i \in Tasks |-> "waiting"]
    /\ tcp = [i \in Tasks |-> "none"]
    /\ http = [i \in Tasks |-> "none"]
    /\ result = [i \in Tasks |-> "pending"]
    /\ semaphore = config.MAX_CONCURRENT_CHECKS
    /\ completed = <<>>
    /\ results = <<>>
    /\ caller = "collecting"

\* A gate that admits a task whatever the counter says.
permit_free_unguarded == semaphore >= 0 \/ semaphore < 0

\* asyncio.Semaphore: a permit can be taken while the counter is positive.
permit_free == semaphore > 0

\* An exit that gives the permit back only when the body did not raise.
permits_after_exit_leaking(r) == IF r = "exception" THEN semaphore ELSE semaphore + 1

\* The permits after a task left "async with semaphore" with outcome r: __aexit__
\* releases whatever the body did.
permits_after_exit(r) == semaphore + 1

\* A validate_proxy that returns the record although no latency was measured.
result_ignoring_latency == "proxy"

\* validate_proxy when _check_tcp_latency returned None.
result_without_latency == "None"

\* A _check_http_access that accepts any response, whatever its status.
http_access_ok_any_status(outcome) == outcome \in {"status_200", "status_204", "status_404"}

\* _check_http_access on the response: only status 200 returns True.
http_access_ok(outcome) == outcome = "status_200"

\* The exit of "async with semaphore" in limited_validate: the permit goes back,
\* the task is done and as_completed queues it for the caller.
task_ends(i, r) ==
    /\ pc' = [pc EXCEPT ![i] = "done"]
    /\ result' = [result EXCEPT ![i] = r]
    /\ semaphore' = permits_after_exit(r)
    /\ completed' = Append(completed, i)

\* async with semaphore: a task enters only while a permit is free.
semaphore_acquire(i) ==
    /\ pc[i] = "waiting"
    /\ permit_free
    /\ semaphore' = semaphore - 1
    /\ pc' = [pc EXCEPT ![i] = "admitted"]
    /\ UNCHANGED <<config, ProxyConnector, proxies, delay, last_checked, tcp, http,
                   result, completed, results, caller>>
    /\ UNCHANGED <<dedupVars, restVars>>

\* validate_proxy up to its first suspension: the attribute reads, the
\* completeness test, then the connect of _check_tcp_latency.
validate_proxy_start(i) ==
    /\ pc[i] = "admitted"
    /\ CASE proxies[i].shape = "model" ->
                /\ task_ends(i, "exception")
                /\ UNCHANGED tcp
         [] proxies[i].shape = "incomplete" ->
                /\ task_ends(i, "None")
                /\ UNCHANGED tcp
         [] OTHER ->
                /\ pc' = [pc EXCEPT ![i] = "tcp"]
                /\ tcp' = [tcp EXCEPT ![i] = "connecting"]
                /\ UNCHANGED <<result, semaphore, completed>>
    /\ UNCHANGED <<config, ProxyConnector, proxies, delay, last_checked, http,
                   results, caller>>
    /\ UNCHANGED <<dedupVars, restVars>>

\* A _check_http_access without the else branch: every kind is sent through the
\* request.
check_http_access_start_no_skip(i) ==
    IF proxies[i].type = "socks5" /\ ProxyConnector = "None" THEN "unchecked"
    ELSE "requesting"

\* _check_http_access up to its first suspension, for a record whose connect
\* succeeded: "skipped" and "unchecked" are its two return True without a request.
check_http_access_start(i) ==
    IF proxies[i].type \in {"http", "https"} THEN "requesting"
    ELSE IF proxies[i].type = "socks5"
         THEN (IF ProxyConnector = "None" THEN "unchecked" ELSE "requesting")
         ELSE "skipped"

\* A _check_tcp_latency that connects again after a failed attempt.
check_tcp_latency_retries(i) ==
    /\ pc[i] = "tcp"
    /\ \E why \in TcpFailures \cup {"connecting"} : tcp' = [tcp EXCEPT ![i] = why]
    /\ UNCHANGED <<config, ProxyConnector, proxies, delay, last_checked, pc, http,
                   result, semaphore, completed, results, caller>>
    /\ UNCHANGED <<dedupVars, restVars>>

\* _check_tcp_latency fails: validate_proxy returns None.
check_tcp_latency_fails(i) ==
    /\ pc[i] = "tcp"
    /\ \E why \in TcpFailures : tcp' = [tcp EXCEPT ![i] = why]
    /\ task_ends(i, result_without_latency)
    /\ UNCHANGED <<config, ProxyConnector, proxies, delay, last_checked, http,
                   results, caller>>
    /\ UNCHANGED <<dedupVars, restVars>>

\* _check_tcp_latency returns a latency: validate_proxy stores it and goes on to
\* the optional application check.
check_tcp_latency_succeeds(i) ==
    /\ pc[i] = "tcp"
    /\ tcp' = [tcp EXCEPT ![i] = "ok"]
    /\ delay' = [delay EXCEPT ![i] = "set"]
    /\ CASE config.ENABLE_HTTP_CHECK = "undefined" ->
                /\ task_ends(i, "exception")
                /\ UNCHANGED http
         [] config.ENABLE_HTTP_CHECK = "False" ->
                /\ task_ends(i, "proxy")
                /\ UNCHANGED http
         [] OTHER ->
                /\ http' = [http EXCEPT ![i] = check_http_access_start(i)]
                /\ IF check_http_access_start(i) = "requesting"
                   THEN /\ pc' = [pc EXCEPT ![i] = "http"]
                        /\ UNCHANGED <<result, semaphore, completed>>
                   ELSE task_ends(i, "proxy")
    /\ UNCHANGED <<config, ProxyConnector, proxies, last_checked, results, caller>>
    /\ UNCHANGED <<dedupVars, restVars>>

\* The GET of _check_http_access ends: status 200 passes, anything else fails.
check_http_access_done(i) ==
    /\ pc[i] = "http"
    /\ \E outcome \in {"status_200"} \cup HttpFailures :
          /\ http' = [http EXCEPT ![i] = outcome]
          /\ task_ends(i, IF http_access_ok(outcome) THEN "proxy" ELSE "None")
    /\ UNCHANGED <<config, ProxyConnector, proxies, delay, last_checked, tcp,
                   results, caller>>
    /\ UNCHANGED <<dedupVars, restVars>>

\* One turn of the loop over asyncio.as_completed: await f re-raises the task's
\* exception, a truthy result is appended.
collect_result ==
    /\ caller = "collecting"
    /\ completed # <<>>
    /\ completed' = Tail(completed)
    /\ IF result[Head(completed)] = "exception"
       THEN /\ caller' = "raised"
            /\ UNCHANGED results
       ELSE /\ results' = IF result[Head(completed)] = "proxy"
                          THEN Append(results, Head(completed))
                          ELSE results
            /\ UNCHANGED caller
    /\ UNCHANGED <<config, ProxyConnector, proxies, delay, last_checked, pc, tcp, http,
                   result, semaphore>>
    /\ UNCHANGED <<dedupVars, restVars>>

\* The loop has seen every task: return results.
return_results ==
    /\ caller = "collecting"
    /\ completed = <<>>
    /\ \A i \in Tasks : pc[i] = "done"
    /\ caller' = "returned"
    /\ UNCHANGED <<config, ProxyConnector, proxies, delay, last_checked, pc, tcp, http,
                   result, semaphore, completed, results>>
    /\ UNCHANGED <<dedupVars, restVars>>

\* After the caller raised, asyncio.run(main()) cancels the tasks still
\* suspended: one waiting for a permit never held one, one suspended inside
\* its check leaves "async with semaphore" and gives its permit back.
cancel_task(i) ==
    /\ caller = "raised"
    /\ pc[i] \in {"waiting", "tcp", "http"}
    /\ pc' = [pc EXCEPT ![i] = "done"]
    /\ result' = [result EXCEPT ![i] = "cancelled"]
    /\ semaphore' = IF pc[i] = "waiting" THEN semaphore ELSE semaphore + 1
    /\ tcp' = [tcp EXCEPT ![i] = IF pc[i] = "tcp" THEN "cancelled" ELSE @]
    /\ http' = [http EXCEPT ![i] = IF pc[i] = "http" THEN "cancelled" ELSE @]
    /\ UNCHANGED <<config, ProxyConnector, proxies, delay, last_checked, completed,
                   results, caller>>
    /\ UNCHANGED <<dedupVars, restVars>>

ProberNext ==
    \/ \E i \in Tasks : semaphore_acquire(i)
    \/ \E i \in Tasks : validate_proxy_start(i)
    \/ \E i \in Tasks : check_tcp_latency_fails(i)
    \/ \E i \in Tasks : check_tcp_latency_succeeds(i)
    \/ \E i \in Tasks : check_http_access_done(i)
    \/ collect_result
    \/ return_results
    \/ \E i \in Tasks : cancel_task(i)

ProberIdle ==
    /\ config = [MAX_CONCURRENT_CHECKS |-> 1, ENABLE_HTTP_CHECK |-> "undefined"]
    /\ ProxyConnector = "None"
    /\ proxies = <<>>
    /\ delay = <<>>
    /\ last_checked = <<>>
    /\ pc = <<>>
    /\ tcp = <<>>
    /\ http = <<>>
    /\ result = <<>>
    /\ semaphore = 1
    /\ completed = <<>>
    /\ results = <<>>
    /\ caller = "returned"

\* ------------------------------------------------------------ deduplicator

\* Strings are sequences of characters. NoneValue stands for Python's None in
\* an Optional[str] field.
NoneValue == <<"<None>">>

UpperCase == <<"A", "B", "C", "D", "E", "F", "G", "H", "I", "J", "K", "L", "M",
               "N", "O", "P", "Q", "R", "S", "T", "U", "V", "W", "X", "Y", "Z">>
LowerCase == <<"a", "b", "c", "d", "e", "f", "g", "h", "i", "j", "k", "l", "m",
               "n", "o", "p", "q", "r", "s", "t", "u", "v", "w", "x", "y", "z">>

\* str.lower()
lower_char(c) ==
    IF \E k \in DOMAIN UpperCase : UpperCase[k] = c
    THEN LowerCase[CHOOSE k \in DOMAIN UpperCase : UpperCase[k] = c]
    ELSE c

lower(s) == [k \in DOMAIN s |-> lower_char(s[k])]

Digits == <<"0", "1", "2", "3", "4", "5", "6", "7", "8", "9">>

\* str(n) for a port number
RECURSIVE str_int(_)
str_int(n) ==
    IF n < 10 THEN <<Digits[n + 1]>>
    ELSE str_int(n \div 10) \o <<Digits[(n % 10) + 1]>>

\* Python truthiness of an Optional[str]
truthy(s) == s # NoneValue /\ s # <<>>

\* x if x else ''
or_empty(s) == IF truthy(s) THEN s ELSE <<>>

\* s.split(' ')[0]: the text before the first space
RECURSIVE first_word(_)
first_word(s) ==
    IF s = <<>> \/ Head(s) = " " THEN <<>>
    ELSE <<Head(s)>> \o first_word(Tail(s))

\* ":".join(parts)
RECURSIVE join_colon(_)
join_colon(parts) ==
    IF parts = <<>> THEN <<>>
    ELSE IF Len(parts) = 1 THEN Head(parts)
    ELSE Head(parts) \o <<":">> \o join_colon(Tail(parts))

\* Proxy.generate_key
generate_key(p) ==
    LET normalized_name == IF truthy(p.name) THEN first_word(p.name) ELSE <<>>
        parts == <<p.proxy_type, p.server, str_int(p.port), or_empty(p.uuid),
                   or_empty(p.password), or_empty(p.cipher), or_empty(p.network),
                   or_empty(p.host), or_empty(p.path), normalized_name>>
    IN  lower(join_colon(SelectSeq(parts, LAMBDA x : x # NoneValue)))

\* The records the deduplicator is run on: the fields of Proxy that
\* generate_key reads, with the display name, the host and the password varied.
DedupInputs ==
    {[name |-> n, proxy_type |-> <<"s", "s">>, server |-> h, port |-> 443,
      uuid |-> NoneValue, password |-> pw, cipher |-> NoneValue,
      network |-> NoneValue, host |-> NoneValue, path |-> NoneValue] :
        n \in {<<"a">>, <<"a", " ", "b">>, <<"c">>},
        h \in {<<"h">>, <<"H">>},
        pw \in {<<>>, <<"p">>}}

\* A list of n Proxy objects: obj tells the objects of one list apart.
ProxyLists(n) ==
    {[k \in 1..n |-> [obj |-> k, fields |-> f[k]]] : f \in [1..n -> DedupInputs]}

\* A loop that starts at the second item.
loop_items_from_second(list) == IF list = <<>> THEN list ELSE Tail(list)

\* A membership test that never finds the key.
is_new_always(key, seen) == key = key

\* for proxy in proxies: the items the loop visits, in order
loop_items(list) == list

\* if key not in seen_keys
is_new(key, seen) == key \notin seen

DedupInit ==
    /\ dedup_proxies \in UNION {ProxyLists(n) : n \in 0..MaxDedupLen}
    /\ pending = loop_items(dedup_proxies)
    /\ seen_keys = {}
    /\ deduplicated = <<>>
    /\ dedup_pc = "loop"
    /\ call_no = 1
    /\ first_result = <<>>

DedupIdle ==
    /\ dedup_proxies = <<>>
    /\ pending = <<>>
    /\ seen_keys = {}
    /\ deduplicated = <<>>
    /\ dedup_pc = "idle"
    /\ call_no = 1
    /\ first_result = <<>>

\* One turn of the loop of deduplicate_proxies.
dedup_step ==
    /\ dedup_pc = "loop"
    /\ pending # <<>>
    /\ LET proxy == Head(pending)
           key == generate_key(proxy.fields)
       IN  IF is_new(key, seen_keys)
           THEN /\ deduplicated' = Append(deduplicated, proxy)
                /\ seen_keys' = seen_keys \cup {key}
           ELSE UNCHANGED <<deduplicated, seen_keys>>
    /\ pending' = Tail(pending)
    /\ UNCHANGED <<dedup_proxies, dedup_pc, call_no, first_result>>
    /\ UNCHANGED <<proberVars, restVars>>

\* The loop is over: return deduplicated.
dedup_return ==
    /\ dedup_pc = "loop"
    /\ pending = <<>>
    /\ dedup_pc' = "returned"
    /\ UNCHANGED <<dedup_proxies, pending, seen_keys, deduplicated, call_no, first_result>>
    /\ UNCHANGED <<proberVars, restVars>>

\* deduplicate_proxies is called again, on the list it just returned.
dedup_again ==
    /\ dedup_pc = "returned"
    /\ call_no = 1
    /\ first_result' = deduplicated
    /\ dedup_proxies' = deduplicated
    /\ pending' = loop_items(deduplicated)
    /\ seen_keys' = {}
    /\ deduplicated' = <<>>
    /\ dedup_pc' = "loop"
    /\ call_no' = 2
    /\ UNCHANGED <<proberVars, restVars>>

DedupNext ==
    \/ dedup_step
    \/ dedup_return
    \/ dedup_again

\* ------------------------------------------------------------ identity key

\* The Proxy objects generate_key is compared on: three protocol kinds, with
\* the uuid, the password and the network varied.
KeyInputs ==
    {[name |-> <<"n">>, proxy_type |-> t, server |-> <<"h">>, port |-> 443,
      uuid |-> u, password |-> pw, cipher |-> NoneValue,
      network |-> nw, host |-> NoneValue, path |-> NoneValue] :
        t \in {<<"s", "s">>, <<"v", "m", "e", "s", "s">>, <<"t", "r", "o", "j", "a", "n">>},
        u \in {NoneValue, <<"u">>},
        pw \in {NoneValue, <<"p">>, <<"q">>},
        nw \in {NoneValue, <<"w", "s">>}}

KeyInit ==
    /\ key_records \in KeyInputs \X KeyInputs
    /\ key_values = <<>>

KeyIdle ==
    /\ key_records = <<>>
    /\ key_values = <<>>

\* proxy.generate_key() on the next of the two objects.
key_call ==
    /\ Len(key_values) < Len(key_records)
    /\ key_values' = Append(key_values, generate_key(key_records[Len(key_values) + 1]))
    /\ UNCHANGED key_records
    /\ UNCHANGED keyOthers

KeyNext == key_call


\* -------------------------------------------------------- ranking and cap

\* A record as main handles it: obj tells the objects apart, key stands for
\* its identity key, delay is <<>> while the attribute is None and <<ms>>
\* once a latency has been written.
None == <<>>

\* The latencies a record is given.
Delays == {<<10>>, <<30>>}

\* The lists the ranking step is applied to.
RankInputs(n) ==
    {[k \in 1..n |-> [obj |-> k, key |-> k, delay |-> d[k]]] :
        d \in [1..n -> Delays \cup {None}]}

\* config.TOP_N_PROXIES as shipped, and the settings it can be changed to.
TOP_N_PROXIES == 9000

TopNSettings == {None, <<0 - 1>>, <<0>>, <<1>>, <<2>>, <<TOP_N_PROXIES>>}

\* A filter that lets every record through.
has_delay_always(p) == p = p

\* if p.delay is not None
has_delay(p) == p.delay # None

\* sorted() compares the keys with <: a None key among several raises TypeError.
comparable(list) == Len(list) <= 1 \/ \A k \in DOMAIN list : list[k].delay # None

\* sorted(..., key=lambda p: p.delay) is stable: p goes behind every record
\* whose delay is not greater.
RECURSIVE insert_by_delay(_, _)
insert_by_delay(s, p) ==
    IF s = <<>> THEN <<p>>
    ELSE IF Head(s).delay[1] <= p.delay[1]
         THEN <<Head(s)>> \o insert_by_delay(Tail(s), p)
         ELSE <<p>> \o s

RECURSIVE sorted_by_delay(_)
sorted_by_delay(list) ==
    IF list = <<>> THEN <<>>
    ELSE insert_by_delay(sorted_by_delay(SubSeq(list, 1, Len(list) - 1)),
                         list[Len(list)])

\* A cap that applies whenever it is set.
cap_applies_if_set(n) == n # None

\* config.TOP_N_PROXIES is not None and config.TOP_N_PROXIES > 0
cap_applies(n) == n # None /\ n[1] > 0

\* list[:n]
slice_to(list, n) ==
    IF n >= 0
    THEN SubSeq(list, 1, IF n < Len(list) THEN n ELSE Len(list))
    ELSE SubSeq(list, 1, IF Len(list) + n > 0 THEN Len(list) + n ELSE 0)

MainIdle ==
    /\ main_pc = "idle"
    /\ top_n_proxies = <<TOP_N_PROXIES>>
    /\ raw_contents = <<>>
    /\ all_proxies = <<>>
    /\ deduplicated_proxies = <<>>
    /\ validated_proxies = <<>>
    /\ sorted_proxies = <<>>
    /\ output_proxies = <<>>
    /\ stages = <<>>

\* main has passed the check of line 74: validated_proxies is not empty.
RankInit ==
    /\ main_pc = "sort"
    /\ top_n_proxies \in TopNSettings
    /\ raw_contents = <<>>
    /\ all_proxies = <<>>
    /\ deduplicated_proxies = <<>>
    /\ validated_proxies \in UNION {RankInputs(n) : n \in 1..MaxRankLen}
    /\ sorted_proxies = <<>>
    /\ output_proxies = <<>>
    /\ stages = <<>>

\* main.py 81-84: filter, then sort.
rank_sort ==
    /\ main_pc = "sort"
    /\ LET with_delay == SelectSeq(validated_proxies, has_delay)
       IN  IF comparable(with_delay)
           THEN /\ sorted_proxies' = sorted_by_delay(with_delay)
                /\ main_pc' = "cap"
           ELSE /\ main_pc' = "raised"
                /\ UNCHANGED sorted_proxies
    /\ stages' = Append(stages, "rank")
    /\ UNCHANGED <<top_n_proxies, raw_contents, all_proxies, deduplicated_proxies,
                   validated_proxies, output_proxies>>
    /\ UNCHANGED mainOthers

\* main.py 88-92: the output cap.
rank_cap ==
    /\ main_pc = "cap"
    /\ output_proxies' = IF cap_applies(top_n_proxies)
                         THEN slice_to(sorted_proxies, top_n_proxies[1])
                         ELSE sorted_proxies
    /\ main_pc' = "write"
    /\ UNCHANGED <<top_n_proxies, raw_contents, all_proxies, deduplicated_proxies,
                   validated_proxies, sorted_proxies, stages>>
    /\ UNCHANGED mainOthers

RankNext ==
    \/ rank_sort
    \/ rank_cap

\* -------------------------------------------------------------------- main

\* The sources of config.PROXY_SOURCES, by position.
Sources == 1..MaxSources

\* An ascending list of the members of S.
RECURSIVE ascending(_)
ascending(S) ==
    IF S = {} THEN <<>>
    ELSE LET least == CHOOSE x \in S : \A y \in S : x <= y
         IN  <<least>> \o ascending(S \ {least})

\* The lists parse_raw_content can hand back for one source, as far as main
\* looks at them: no record, or one record of either identity key.
ParseResults == {<<>>} \cup {<<[key |-> c, delay |-> None]>> : c \in 1..2}

\* all_proxies.extend(parsed_from_source) for every source, obj numbering the
\* objects in the order they are added.
RECURSIVE extend_all(_, _, _)
extend_all(contents, parsed, acc) ==
    IF contents = <<>> THEN acc
    ELSE LET new == parsed[Head(contents)]
             numbered == [k \in DOMAIN new |->
                            [obj |-> Len(acc) + k, key |-> new[k].key,
                             delay |-> new[k].delay]]
         IN  extend_all(Tail(contents), parsed, acc \o numbered)

\* deduplicate_proxies on records whose identity key is the field key.
RECURSIVE first_per_key(_, _)
first_per_key(list, seen) ==
    IF list = <<>> THEN <<>>
    ELSE IF Head(list).key \in seen
         THEN first_per_key(Tail(list), seen)
         ELSE <<Head(list)>> \o first_per_key(Tail(list), seen \cup {Head(list).key})

\* The orders in which the members of S can complete.
Orders(S) == {f \in [1..Cardinality(S) -> S] : \A a, b \in DOMAIN f : f[a] = f[b] => a = b}

\* A test that never finds a list empty.
is_empty_never(list) == list # list

\* if not <list>: return
is_empty(list) == list = <<>>

MainInit ==
    /\ main_pc = "fetch"
    /\ top_n_proxies \in {None, <<1>>, <<TOP_N_PROXIES>>}
    /\ raw_contents = <<>>
    /\ all_proxies = <<>>
    /\ deduplicated_proxies = <<>>
    /\ validated_proxies = <<>>
    /\ sorted_proxies = <<>>
    /\ output_proxies = <<>>
    /\ stages = <<>>

\* main.py 39-42: fetch_all_proxy_sources returns the sources that answered
\* with a text, in the order of the configured list.
main_fetch ==
    /\ main_pc = "fetch"
    /\ \E answered \in SUBSET Sources : raw_contents' = ascending(answered)
    /\ main_pc' = IF is_empty(raw_contents') THEN "returned" ELSE "decode"
    /\ stages' = Append(stages, "fetch")
    /\ UNCHANGED <<top_n_proxies, all_proxies, deduplicated_proxies, validated_proxies,
                   sorted_proxies, output_proxies>>
    /\ UNCHANGED mainOthers

\* main.py 46-55: parse every fetched content and collect the records.
main_decode ==
    /\ main_pc = "decode"
    /\ \E parsed \in [Sources -> ParseResults] :
           all_proxies' = extend_all(raw_contents, parsed, <<>>)
    /\ main_pc' = IF is_empty(all_proxies') THEN "returned" ELSE "dedup"
    /\ stages' = Append(stages, "decode")
    /\ UNCHANGED <<top_n_proxies, raw_contents, deduplicated_proxies, validated_proxies,
                   sorted_proxies, output_proxies>>
    /\ UNCHANGED mainOthers

\* main.py 62-67
main_dedup ==
    /\ main_pc = "dedup"
    /\ deduplicated_proxies' = first_per_key(all_proxies, {})
    /\ main_pc' = IF is_empty(deduplicated_proxies') THEN "returned" ELSE "probe"
    /\ stages' = Append(stages, "dedup")
    /\ UNCHANGED <<top_n_proxies, raw_contents, all_proxies, validated_proxies,
                   sorted_proxies, output_proxies>>
    /\ UNCHANGED mainOthers

\* main.py 72-76: validate_proxies_concurrently returns the records that
\* passed, in completion order, each with its delay written; or the exception
\* of a check comes out of it and out of main.
main_probe ==
    /\ main_pc = "probe"
    /\ \/ /\ \E passed \in SUBSET DOMAIN deduplicated_proxies :
              \E order \in Orders(passed) :
              \E latency \in [passed -> Delays] :
                  validated_proxies' =
                      [k \in DOMAIN order |->
                          [obj |-> deduplicated_proxies[order[k]].obj,
                           key |-> deduplicated_proxies[order[k]].key,
                           delay |-> latency[order[k]]]]
          /\ main_pc' = IF is_empty(validated_proxies') THEN "returned" ELSE "sort"
       \/ /\ main_pc' = "raised"
          /\ UNCHANGED validated_proxies
    /\ stages' = Append(stages, "probe")
    /\ UNCHANGED <<top_n_proxies, raw_contents, all_proxies, deduplicated_proxies,
                   sorted_proxies, output_proxies>>
    /\ UNCHANGED mainOthers

\* main.py 98-101: the first writer is called; it reads
\* config.PLAIN_TEXT_OUTPUT_FILENAME (writer.py:28), which config.py does not
\* define, so AttributeError comes out of it and out of main.
main_write ==
    /\ main_pc = "write"
    /\ main_pc' = "raised"
    /\ stages' = Append(stages, "write")
    /\ UNCHANGED <<top_n_proxies, raw_contents, all_proxies, deduplicated_proxies,
                   validated_proxies, sorted_proxies, output_proxies>>
    /\ UNCHANGED mainOthers

MainNext ==
    \/ main_fetch
    \/ main_decode
    \/ main_dedup
    \/ main_probe
    \/ rank_sort
    \/ rank_cap
    \/ main_write

\* ----------------------------------------------------------- decoder: text

\* Texts are sequences of characters. Ascii[n + 1] is chr(n), the characters
\* that cannot be written in a string by a name of the form <0xNN>; a character
\* beyond ASCII is the one value NonAscii.
Ascii ==
    <<"<0x00>", "<0x01>", "<0x02>", "<0x03>", "<0x04>", "<0x05>", "<0x06>", "<0x07>",
      "<0x08>", "\t", "\n", "<0x0b>", "\f", "\r", "<0x0e>", "<0x0f>",
      "<0x10>", "<0x11>", "<0x12>", "<0x13>", "<0x14>", "<0x15>", "<0x16>", "<0x17>",
      "<0x18>", "<0x19>", "<0x1a>", "<0x1b>", "<0x1c>", "<0x1d>", "<0x1e>", "<0x1f>",
      " ", "!", "\"", "#", "$", "%", "&", "'",
      "(", ")", "*", "+", ",", "-", ".", "/",
      "0", "1", "2", "3", "4", "5", "6", "7",
      "8", "9", ":", ";", "<", "=", ">", "?",
      "@", "A", "B", "C", "D", "E", "F", "G",
      "H", "I", "J", "K", "L", "M", "N", "O",
      "P", "Q", "R", "S", "T", "U", "V", "W",
      "X", "Y", "Z", "[", "\\", "]", "^", "_",
      "<0x60>", "a", "b", "c", "d", "e", "f", "g",
      "h", "i", "j", "k", "l", "m", "n", "o",
      "p", "q", "r", "s", "t", "u", "v", "w",
      "x", "y", "z", "{", "|", "}", "~", "<0x7f>">>

NonAscii == "<non-ascii>"

\* ord(c) of an ASCII character
ord(c) == (CHOOSE k \in DOMAIN Ascii : Ascii[k] = c) - 1

is_ascii(c) == \E k \in DOMAIN Ascii : Ascii[k] = c

\* The characters str.strip() removes: str.isspace() within ASCII.
Whitespace == {" ", "\t", "\n", "<0x0b>", "\f", "\r", "<0x1c>", "<0x1d>", "<0x1e>", "<0x1f>"}

RECURSIVE lstrip(_)
lstrip(s) == IF s # <<>> /\ Head(s) \in Whitespace THEN lstrip(Tail(s)) ELSE s

RECURSIVE rstrip(_)
rstrip(s) ==
    IF s # <<>> /\ s[Len(s)] \in Whitespace THEN rstrip(SubSeq(s, 1, Len(s) - 1)) ELSE s

\* s.strip()
strip(s) == rstrip(lstrip(s))

\* s.startswith(prefix)
startswith(s, prefix) == Len(s) >= Len(prefix) /\ SubSeq(s, 1, Len(prefix)) = prefix

\* s.find(sub): the first position (from 1) where sub starts in s, 0 if none
find(s, sub) ==
    LET starts == {k \in 1..(Len(s) - Len(sub) + 1) : SubSeq(s, k, k + Len(sub) - 1) = sub}
    IN  IF starts = {} THEN 0 ELSE CHOOSE k \in starts : \A m \in starts : k <= m

\* sub in s
contains(s, sub) == find(s, sub) > 0

\* s.split(sep): every piece between the occurrences of the character sep
RECURSIVE split(_, _)
split(s, sep) ==
    LET k == find(s, <<sep>>)
    IN  IF k = 0 THEN <<s>>
        ELSE <<SubSeq(s, 1, k - 1)>> \o split(SubSeq(s, k + 1, Len(s)), sep)

\* s.split(sep, 1): at most one cut, at the first occurrence
split_once(s, sep) ==
    LET k == find(s, <<sep>>)
    IN  IF k = 0 THEN <<s>>
        ELSE <<SubSeq(s, 1, k - 1), SubSeq(s, k + 1, Len(s))>>

\* s.replace(old, new) for single characters
replace(s, old, new) == [k \in DOMAIN s |-> IF s[k] = old THEN new ELSE s[k]]

\* int(s) of a text: the number a plain run of decimal digits writes, or "ValueError"
\* (the texts given to it here carry no sign, blank or underscore)
is_digits(s) == s # <<>> /\ \A k \in DOMAIN s : \E d \in DOMAIN Digits : Digits[d] = s[k]

digit_value(c) == (CHOOSE d \in DOMAIN Digits : Digits[d] = c) - 1

RECURSIVE int_of_digits(_)
int_of_digits(s) ==
    IF s = <<>> THEN 0
    ELSE (10 * int_of_digits(SubSeq(s, 1, Len(s) - 1))) + digit_value(s[Len(s)])

\* --------------------------------------------------------- decoder: base64

Base64Alphabet ==
    <<"A", "B", "C", "D", "E", "F", "G", "H", "I", "J", "K", "L", "M", "N", "O", "P",
      "Q", "R", "S", "T", "U", "V", "W", "X", "Y", "Z", "a", "b", "c", "d", "e", "f",
      "g", "h", "i", "j", "k", "l", "m", "n", "o", "p", "q", "r", "s", "t", "u", "v",
      "w", "x", "y", "z", "0", "1", "2", "3", "4", "5", "6", "7", "8", "9", "+", "/">>

is_base64_char(c) == \E k \in DOMAIN Base64Alphabet : Base64Alphabet[k] = c

base64_value(c) == (CHOOSE k \in DOMAIN Base64Alphabet : Base64Alphabet[k] = c) - 1

\* binascii.a2b_base64 without strict mode: a character outside the alphabet
\* is skipped, a complete run of padding ends the data, and data that ends
\* inside a group of four is an error. quad_pos(s, i) is the place in its group
\* of four that the decoder has reached before it reads s[i].
quad_pos(s, i) == Len(SelectSeq(SubSeq(s, 1, i - 1), is_base64_char)) % 4

\* A = at position i ends the data: it completes the padding of a group that
\* holds three characters, or of one that holds two and has met a = already.
padding_ends(s, i) ==
    /\ s[i] = "="
    /\ \/ quad_pos(s, i) = 3
       \/ /\ quad_pos(s, i) = 2
          /\ \E j \in 1..(i - 1) :
                 s[j] = "=" /\ \A k \in j..(i - 1) : ~is_base64_char(s[k])

a2b_base64(s) ==
    LET ends == {i \in DOMAIN s : padding_ends(s, i)}
        stop == IF ends = {} THEN Len(s) + 1
                ELSE CHOOSE i \in ends : \A j \in ends : i <= j
        data == SelectSeq(SubSeq(s, 1, stop - 1), is_base64_char)
        v(k) == base64_value(data[k])
        left == Len(data) % 4
        count == ((Len(data) \div 4) * 3) + (IF left >= 2 THEN left - 1 ELSE 0)
        byte(n) ==
            LET g == 4 * ((n - 1) \div 3)
            IN  CASE (n - 1) % 3 = 0 -> (v(g + 1) * 4) + (v(g + 2) \div 16)
                  [] (n - 1) % 3 = 1 -> ((v(g + 2) % 16) * 16) + (v(g + 3) \div 4)
                  [] (n - 1) % 3 = 2 -> ((v(g + 3) % 4) * 64) + v(g + 4)
    IN  [ok |-> ends # {} \/ left = 0, bytes |-> [n \in 1..count |-> byte(n)]]

\* base64.b64decode(s) of a text: a text with a character beyond ASCII is
\* refused (ValueError), everything else goes to a2b_base64.
b64decode(s) ==
    IF \E k \in DOMAIN s : ~is_ascii(s[k])
    THEN [ok |-> FALSE, bytes |-> <<>>]
    ELSE a2b_base64(s)

\* base64.urlsafe_b64decode(s): - and _ stand for + and /
urlsafe_b64decode(s) == b64decode(replace(replace(s, "-", "+"), "_", "/"))

\* The number of bytes the UTF-8 sequence starting at bytes[i] takes, 0 when
\* no well-formed sequence starts there.
utf8_length(bytes, i) ==
    LET b == bytes[i]
        cont(k, lo, hi) == i + k <= Len(bytes) /\ bytes[i + k] >= lo /\ bytes[i + k] <= hi
    IN  IF b < 128 THEN 1
        ELSE IF b >= 194 /\ b <= 223 /\ cont(1, 128, 191) THEN 2
        ELSE IF b = 224 /\ cont(1, 160, 191) /\ cont(2, 128, 191) THEN 3
        ELSE IF b >= 225 /\ b <= 236 /\ cont(1, 128, 191) /\ cont(2, 128, 191) THEN 3
        ELSE IF b = 237 /\ cont(1, 128, 159) /\ cont(2, 128, 191) THEN 3
        ELSE IF b >= 238 /\ b <= 239 /\ cont(1, 128, 191) /\ cont(2, 128, 191) THEN 3
        ELSE IF b = 240 /\ cont(1, 144, 191) /\ cont(2, 128, 191) /\ cont(3, 128, 191) THEN 4
        ELSE IF b >= 241 /\ b <= 243 /\ cont(1, 128, 191) /\ cont(2, 128, 191)
                /\ cont(3, 128, 191) THEN 4
        ELSE IF b = 244 /\ cont(1, 128, 143) /\ cont(2, 128, 191) /\ cont(3, 128, 191) THEN 4
        ELSE 0

\* bytes.decode('utf-8') from position i on: the text, or a failure
\* (UnicodeDecodeError).
RECURSIVE utf8_decode_from(_, _, _)
utf8_decode_from(bytes, i, out) ==
    IF i > Len(bytes) THEN [ok |-> TRUE, text |-> out]
    ELSE LET n == utf8_length(bytes, i)
         IN  IF n = 0 THEN [ok |-> FALSE, text |-> <<>>]
             ELSE utf8_decode_from(bytes, i + n,
                                   Append(out, IF n = 1 THEN Ascii[bytes[i] + 1] ELSE NonAscii))

\* bytes.decode('utf-8'): bytes below 128 stand for themselves, anything else
\* is read sequence by sequence.
utf8_decode(bytes) ==
    IF \A k \in DOMAIN bytes : bytes[k] < 128
    THEN [ok |-> TRUE, text |-> [k \in DOMAIN bytes |-> Ascii[bytes[k] + 1]]]
    ELSE utf8_decode_from(bytes, 1, <<>>)

\* base64.b64decode(s).decode('utf-8'): the text, or a failure of either call
b64decode_text(s) ==
    LET raw == b64decode(s)
    IN  IF raw.ok THEN utf8_decode(raw.bytes) ELSE [ok |-> FALSE, text |-> <<>>]

\* base64.urlsafe_b64decode(s).decode('utf-8')
urlsafe_b64decode_text(s) ==
    LET raw == urlsafe_b64decode(s)
    IN  IF raw.ok THEN utf8_decode(raw.bytes) ELSE [ok |-> FALSE, text |-> <<>>]

\* base64.b64encode of the bytes of an ASCII text, three bytes to four
\* characters, the last group padded with =.
b64encode(s) ==
    LET byte(k) == IF k <= Len(s) THEN ord(s[k]) ELSE 0
        char(n) ==
            LET g == 3 * ((n - 1) \div 4)
            IN  CASE (n - 1) % 4 = 0 -> Base64Alphabet[(byte(g + 1) \div 4) + 1]
                  [] (n - 1) % 4 = 1 ->
                       Base64Alphabet[((byte(g + 1) % 4) * 16) + (byte(g + 2) \div 16) + 1]
                  [] (n - 1) % 4 = 2 ->
                       IF g + 2 > Len(s) THEN "="
                       ELSE Base64Alphabet[((byte(g + 2) % 16) * 4) + (byte(g + 3) \div 64) + 1]
                  [] (n - 1) % 4 = 3 ->
                       IF g + 3 > Len(s) THEN "="
                       ELSE Base64Alphabet[(byte(g + 3) % 64) + 1]
    IN  [n \in 1..(4 * ((Len(s) + 2) \div 3)) |-> char(n)]

\* ---------------------------------------------------- decoder: Python values

\* A Python value carries its type: None, a str (a text), an int, a bool, a
\* dict (a function from keys to values) or a list (a sequence of values).
PyNone == [t |-> "none", v |-> <<>>]

PyStr(s) == [t |-> "str", v |-> s]

PyInt(n) == [t |-> "int", v |-> n]

PyBool(b) == [t |-> "bool", v |-> b]

PyDict(d) == [t |-> "dict", v |-> d]

PyList(l) == [t |-> "list", v |-> l]

\* bool(x)
py_truthy(x) ==
    CASE x.t = "none" -> FALSE
      [] x.t = "str" -> x.v # <<>>
      [] x.t = "int" -> x.v # 0
      [] x.t = "bool" -> x.v
      [] x.t = "dict" -> DOMAIN x.v # {}
      [] x.t = "list" -> x.v # <<>>

\* d.get(key) and d.get(key, default) of a dict
dict_get(d, key, default) == IF key \in DOMAIN d.v THEN d.v[key] ELSE default

\* str(x) as an f-string writes it
py_str(x) ==
    CASE x.t = "none" -> <<"N", "o", "n", "e">>
      [] x.t = "str" -> x.v
      [] x.t = "int" -> IF x.v < 0 THEN <<"-">> \o str_int(0 - x.v) ELSE str_int(x.v)
      [] x.t = "bool" -> IF x.v THEN <<"T", "r", "u", "e">> ELSE <<"F", "a", "l", "s", "e">>

\* int(s) of a text: blanks around it and a sign are allowed, the rest must be
\* decimal digits (the texts met here carry no underscore and no digit beyond
\* ASCII); ok is FALSE for ValueError.
int_of_text(s) ==
    LET body == strip(s)
        signed == body # <<>> /\ Head(body) \in {"+", "-"}
        digits == IF signed THEN Tail(body) ELSE body
    IN  IF is_digits(digits)
        THEN [ok |-> TRUE,
              value |-> IF signed /\ Head(body) = "-"
                        THEN 0 - int_of_digits(digits) ELSE int_of_digits(digits)]
        ELSE [ok |-> FALSE, value |-> 0]

\* int(x) of a Python value: TypeError for None, a dict or a list
py_int(x) ==
    CASE x.t = "int" -> [ok |-> TRUE, value |-> x.v]
      [] x.t = "bool" -> [ok |-> TRUE, value |-> IF x.v THEN 1 ELSE 0]
      [] x.t = "str" -> int_of_text(x.v)
      [] OTHER -> [ok |-> FALSE, value |-> 0]

\* ------------------------------------------------------- decoder: urllib

Letters == {UpperCase[k] : k \in DOMAIN UpperCase} \cup {LowerCase[k] : k \in DOMAIN LowerCase}

SchemeChars == Letters \cup {Digits[k] : k \in DOMAIN Digits} \cup {"+", "-", "."}

HexDigits == <<"0", "1", "2", "3", "4", "5", "6", "7", "8", "9",
               "a", "b", "c", "d", "e", "f">>

is_hex(c) == \E k \in DOMAIN HexDigits : HexDigits[k] = lower_char(c)

hex_value(c) == (CHOOSE k \in DOMAIN HexDigits : HexDigits[k] = lower_char(c)) - 1

\* urllib.parse.unquote: a text without % comes back as it is; %XX becomes the
\* character of that code, NonAscii standing for what the bytes from 0x80 on
\* decode to.
RECURSIVE unquote(_)
unquote(s) ==
    IF s = <<>> THEN <<>>
    ELSE IF Head(s) = "%" /\ Len(s) >= 3 /\ is_hex(s[2]) /\ is_hex(s[3])
    THEN LET code == (16 * hex_value(s[2])) + hex_value(s[3])
         IN  <<IF code < 128 THEN Ascii[code + 1] ELSE NonAscii>>
                 \o unquote(SubSeq(s, 4, Len(s)))
    ELSE <<Head(s)>> \o unquote(Tail(s))

\* The first position in s, from position from on, of a character of chars;
\* Len(s) + 1 if there is none.
first_of(s, chars, from) ==
    LET hits == {k \in from..Len(s) : s[k] \in chars}
    IN  IF hits = {} THEN Len(s) + 1 ELSE CHOOSE k \in hits : \A m \in hits : k <= m

\* urllib.parse.urlparse(url), as far as the decoders read it: scheme, netloc
\* and fragment. Leading control characters and blanks are dropped, tabs and
\* line ends removed; the scheme is what stands before the first colon when
\* that is a letter followed by scheme characters; after // the netloc runs
\* to the first of / ? #; a netloc with only one of [ and ] is refused
\* (ValueError), and the inputs hold no bracketed netloc.
urlparse(link) ==
    LET C0 == {Ascii[k] : k \in 1..33}
        RECURSIVE skip(_)
        skip(s) == IF s # <<>> /\ Head(s) \in C0 THEN skip(Tail(s)) ELSE s
        url == SelectSeq(skip(link), LAMBDA c : c \notin {"\t", "\n", "\r"})
        colon == find(url, <<":">>)
        has_scheme == /\ colon > 1
                      /\ url[1] \in Letters
                      /\ \A k \in 1..(colon - 1) : url[k] \in SchemeChars
        scheme == IF has_scheme THEN lower(SubSeq(url, 1, colon - 1)) ELSE <<>>
        rest == IF has_scheme THEN SubSeq(url, colon + 1, Len(url)) ELSE url
        has_netloc == startswith(rest, <<"/", "/">>)
        netloc_end == first_of(rest, {"/", "?", "#"}, 3)
        netloc == IF has_netloc THEN SubSeq(rest, 3, netloc_end - 1) ELSE <<>>
        after == IF has_netloc THEN SubSeq(rest, netloc_end, Len(rest)) ELSE rest
        hash == find(after, <<"#">>)
        fragment == IF hash > 0 THEN SubSeq(after, hash + 1, Len(after)) ELSE <<>>
        opening == \E k \in DOMAIN netloc : netloc[k] = "["
        closing == \E k \in DOMAIN netloc : netloc[k] = "]"
    IN  [ok |-> opening <=> closing,
         scheme |-> scheme, netloc |-> netloc, fragment |-> fragment]

\* ------------------------------------------------ decoder: scheme decoders

\* What a decoder hands back when it gives up: its except clause returns None.
NoProxyData == PyNone

\* ProxyParser._parse_ss, statement by statement: each operator takes the
\* values the statements before it have bound. Any exception on the way ends
\* in the except clause, which returns None.

\* lines 52-65: method and password, the name, and the dict
ss_proxy_info(link, fragment, creds, server, port) ==
    IF ~int_of_text(port).ok THEN NoProxyData
    ELSE PyDict([ps |-> PyStr(IF fragment # <<>> THEN unquote(fragment)
                               ELSE <<"S", "h", "a", "d", "o", "w", "s", "o", "c", "k", "s", "-">>
                                        \o server \o <<":">> \o port),
                 type |-> PyStr(<<"s", "s">>),
                 server |-> PyStr(server),
                 port |-> PyInt(int_of_text(port).value),
                 cipher |-> PyStr(IF contains(creds, <<":">>)
                                  THEN split_once(creds, ":")[1] ELSE creds),
                 password |-> PyStr(IF contains(creds, <<":">>)
                                    THEN split_once(creds, ":")[2] ELSE <<>>),
                 proxy_str |-> PyStr(link)])

\* lines 49-50: server, port = server_info.split(':', 1), the port cut at #
ss_server_info(link, fragment, creds, host_port) ==
    IF Len(host_port) # 2 THEN NoProxyData
    ELSE ss_proxy_info(link, fragment, creds, host_port[1],
                       split_once(host_port[2], "#")[1])

\* lines 38-44: the credentials decoded as URL-safe base64, or else as
\* standard base64
ss_creds(link, fragment, server_info, first_try, second_try) ==
    IF first_try.ok
    THEN ss_server_info(link, fragment, first_try.text, split_once(server_info, ":"))
    ELSE IF second_try.ok
    THEN ss_server_info(link, fragment, second_try.text, split_once(server_info, ":"))
    ELSE NoProxyData

\* lines 28-47: the scheme test, and the netloc cut at its first @
ss_netloc(link, parsed_url, at) ==
    IF ~parsed_url.ok THEN NoProxyData
    ELSE IF parsed_url.scheme # <<"s", "s">> THEN NoProxyData
    ELSE IF Len(at) = 2
    THEN ss_creds(link, parsed_url.fragment, at[2],
                  urlsafe_b64decode_text(at[1] \o <<"=", "=">>),
                  b64decode_text(replace(replace(at[1], "-", "+"), "_", "/")
                                     \o <<"=", "=">>))
    ELSE ss_server_info(link, parsed_url.fragment, <<>>,
                        split_once(parsed_url.netloc, ":"))

parse_ss(link) == ss_netloc(link, urlparse(link), split_once(urlparse(link).netloc, "@"))

\* The JSON texts the vmess and hy2 descriptors of the inputs carry.
JsonHy2Full ==
    <<"{", "\"", "s", "e", "r", "v", "e", "r", "\"", ":", "\"", "h", "\"", ",",
      "\"", "p", "o", "r", "t", "\"", ":", "1", ",", "\"", "p", "a", "s", "s", "w",
      "o", "r", "d", "\"", ":", "\"", "p", "\"", "}">>

JsonHy2NoServer ==
    <<"{", "\"", "p", "a", "s", "s", "w", "o", "r", "d", "\"", ":", "\"", "p",
      "\"", "}">>

JsonHy2Tls ==
    <<"{", "\"", "s", "e", "r", "v", "e", "r", "\"", ":", "\"", "h", "\"", ",",
      "\"", "p", "o", "r", "t", "\"", ":", "1", ",", "\"", "t", "l", "s", "\"",
      ":", "{", "\"", "s", "n", "i", "\"", ":", "\"", "s", "\"", "}", "}">>

JsonVmessFull ==
    <<"{", "\"", "a", "d", "d", "\"", ":", "\"", "h", "\"", ",", "\"", "p", "o",
      "r", "t", "\"", ":", "\"", "1", "\"", ",", "\"", "i", "d", "\"", ":", "\"",
      "u", "\"", "}">>

JsonVmessNoAdd ==
    <<"{", "\"", "p", "o", "r", "t", "\"", ":", "\"", "1", "\"", ",", "\"", "i",
      "d", "\"", ":", "\"", "u", "\"", "}">>

JsonVmessNoPort ==
    <<"{", "\"", "a", "d", "d", "\"", ":", "\"", "h", "\"", ",", "\"", "i", "d",
      "\"", ":", "\"", "u", "\"", "}">>

JsonVmessWs ==
    <<"{", "\"", "a", "d", "d", "\"", ":", "\"", "h", "\"", ",", "\"", "p", "o",
      "r", "t", "\"", ":", "1", ",", "\"", "i", "d", "\"", ":", "\"", "u", "\"",
      ",", "\"", "n", "e", "t", "\"", ":", "\"", "w", "s", "\"", "}">>

JsonEmpty == <<"{", "}">>

\* json.loads on those texts: each text with the dict it denotes.
JsonDocuments ==
    <<<<JsonEmpty, PyDict(<<>>)>>,
     <<JsonHy2Full,
       PyDict([server |-> PyStr(<<"h">>), port |-> PyInt(1), password |-> PyStr(<<"p">>)])>>,
     <<JsonHy2NoServer,
       PyDict([password |-> PyStr(<<"p">>)])>>,
     <<JsonHy2Tls,
       PyDict([server |-> PyStr(<<"h">>), port |-> PyInt(1), tls |-> PyDict([sni |-> PyStr(<<"s">>)])])>>,
     <<JsonVmessFull,
       PyDict([add |-> PyStr(<<"h">>), port |-> PyStr(<<"1">>), id |-> PyStr(<<"u">>)])>>,
     <<JsonVmessNoAdd,
       PyDict([port |-> PyStr(<<"1">>), id |-> PyStr(<<"u">>)])>>,
     <<JsonVmessNoPort,
       PyDict([add |-> PyStr(<<"h">>), id |-> PyStr(<<"u">>)])>>,
     <<JsonVmessWs,
       PyDict([add |-> PyStr(<<"h">>), port |-> PyInt(1), id |-> PyStr(<<"u">>), net |-> PyStr(<<"w", "s">>)])>>>>

\* The blanks json.loads allows around a document.
JsonWhitespace == {" ", "\t", "\n", "\r"}

RECURSIVE json_strip(_)
json_strip(s) ==
    IF s # <<>> /\ Head(s) \in JsonWhitespace THEN json_strip(Tail(s))
    ELSE IF s # <<>> /\ s[Len(s)] \in JsonWhitespace
    THEN json_strip(SubSeq(s, 1, Len(s) - 1))
    ELSE s

\* data = json.loads(text), for the uses the decoders make of data: ok is FALSE
\* when json.loads raises, and also when it yields something that is no dict,
\* as the first data.get then raises AttributeError inside the same try.
json_loads(s) ==
    LET document == json_strip(s)
    IN  IF \E k \in DOMAIN JsonDocuments : JsonDocuments[k][1] = document
        THEN [ok |-> TRUE,
              value |-> JsonDocuments[CHOOSE k \in DOMAIN JsonDocuments :
                                          JsonDocuments[k][1] = document][2]]
        ELSE [ok |-> FALSE, value |-> PyNone]

\* ProxyParser._parse_vmess, statement by statement.

\* lines 96-103: the settings of the ws and grpc transports
vmess_network(data, proxy_info) ==
    IF proxy_info.network = PyStr(<<"w", "s">>)
    THEN PyDict(("ws-path" :> dict_get(data, "path", PyStr(<<"/">>)))
                @@ ("ws-headers" :>
                        PyDict([Host |-> dict_get(data, "host", dict_get(data, "add", PyNone))]))
                @@ proxy_info)
    ELSE IF proxy_info.network = PyStr(<<"g", "r", "p", "c">>)
    THEN PyDict(("grpc-serviceName" :> dict_get(data, "path", PyStr(<<>>))) @@ proxy_info)
    ELSE PyDict(proxy_info)

\* lines 84-95: proxy_info, with int() of the port and of aid
vmess_proxy_info(link, data, port, aid) ==
    IF ~port.ok \/ ~aid.ok THEN NoProxyData
    ELSE vmess_network(data,
             [ps |-> dict_get(data, "ps",
                              PyStr(<<"V", "M", "e", "s", "s", "-">>
                                        \o py_str(dict_get(data, "add", PyNone)) \o <<":">>
                                        \o py_str(dict_get(data, "port", PyNone)))),
              type |-> PyStr(<<"v", "m", "e", "s", "s">>),
              server |-> dict_get(data, "add", PyNone),
              port |-> PyInt(port.value),
              uuid |-> dict_get(data, "id", PyNone),
              alterId |-> PyInt(aid.value),
              cipher |-> PyStr(<<"a", "u", "t", "o">>),
              network |-> dict_get(data, "net", PyStr(<<"t", "c", "p">>)),
              tls |-> PyBool(dict_get(data, "tls", PyStr(<<>>)) = PyStr(<<"t", "l", "s">>)),
              proxy_str |-> PyStr(link)])

\* line 81: data = json.loads(decoded_str)
vmess_loaded(link, loaded) ==
    IF ~loaded.ok THEN NoProxyData
    ELSE vmess_proxy_info(link, loaded.value,
                          py_int(dict_get(loaded.value, "port", PyNone)),
                          py_int(dict_get(loaded.value, "aid", PyInt(0))))

\* line 80: the rest of the link decoded as base64 and as UTF-8
vmess_decoded(link, decoded_str) ==
    IF ~decoded_str.ok THEN NoProxyData
    ELSE vmess_loaded(link, json_loads(decoded_str.text))

parse_vmess(link) ==
    IF ~startswith(link, <<"v", "m", "e", "s", "s", ":", "/", "/">>) THEN NoProxyData
    ELSE vmess_decoded(link, b64decode_text(SubSeq(link, 9, Len(link)) \o <<"=", "=">>))

\* ProxyParser._parse_hy2, statement by statement.

\* lines 223-239: proxy_info and the TLS settings; 'sni' in tls_settings needs
\* a container, which the inputs give as a dict or leave out
hy2_proxy_info(link, name, hy2_config, tls_settings) ==
    IF tls_settings.t # "dict" THEN NoProxyData
    ELSE PyDict((IF "sni" \in DOMAIN tls_settings.v
                 THEN ("servername" :> tls_settings.v["sni"]) ELSE <<>>)
                @@ (IF "insecure" \in DOMAIN tls_settings.v
                    THEN ("skip-cert-verify" :> tls_settings.v["insecure"]) ELSE <<>>)
                @@ [ps |-> PyStr(name),
                    type |-> PyStr(<<"h", "y", "s", "t", "e", "r", "i", "a", "2">>),
                    server |-> dict_get(hy2_config, "server", PyNone),
                    port |-> dict_get(hy2_config, "port", PyNone),
                    password |-> dict_get(hy2_config, "password", PyNone),
                    tls |-> PyBool(TRUE),
                    proxy_str |-> PyStr(link)])

\* line 221: hy2_config = json.loads(decoded_main_part)
hy2_loaded(link, name, loaded) ==
    IF ~loaded.ok THEN NoProxyData
    ELSE hy2_proxy_info(link, name, loaded.value,
                        dict_get(loaded.value, "tls", PyDict(<<>>)))

\* lines 215-218: the name, and the main part decoded as URL-safe base64
hy2_main_part(link, cut, decoded_main_part) ==
    IF ~decoded_main_part.ok THEN NoProxyData
    ELSE hy2_loaded(link,
                    IF Len(cut) = 2 THEN unquote(cut[2])
                    ELSE <<"H", "y", "s", "t", "e", "r", "i", "a", "2", "-", "U", "n", "k", "n", "o", "w", "n">>,
                    json_loads(decoded_main_part.text))

\* lines 207-214: the prefix test, and the rest cut at its first #
hy2_encoded(link, cut) ==
    hy2_main_part(link, cut, urlsafe_b64decode_text(cut[1] \o <<"=", "=">>))

parse_hy2(link) ==
    IF ~startswith(link, <<"h", "y", "2", ":", "/", "/">>) THEN NoProxyData
    ELSE hy2_encoded(link, split_once(SubSeq(link, 7, Len(link)), "#"))

\* ------------------------------------------------------------ parser: Proxy

\* The class the parser's name Proxy stands for: the one models/proxy_model.py
\* defines, or one whose constructor takes the keywords the parser passes and
\* whose objects carry a data dict.
ModelProxy == "models.proxy_model.Proxy"

KeywordProxy == "Proxy(proxy_str, ps, ptype, server, port)"

ProxyClasses == {ModelProxy, KeywordProxy}

\* The parameters of Proxy.__init__ in models/proxy_model.py, and the ones
\* without a default.
InitParameters ==
    {"name", "proxy_type", "server", "port", "uuid", "password", "alter_id", "cipher",
     "network", "tls", "skip_cert_verify", "host", "path", "service_name", "flow",
     "obfs", "obfs_password", "raw_link", "latency", "region", "isp", "last_checked"}

RequiredParameters == {"name", "proxy_type", "server", "port"}

\* The result of a call that may raise: raised tells whether an exception left
\* it, value is what it returned otherwise.
RaisedValue == [raised |-> TRUE, value |-> PyNone]

ReturnedValue(x) == [raised |-> FALSE, value |-> x]

\* Proxy(**kwargs) with the class of models/proxy_model.py: TypeError for a
\* keyword that is no parameter and for a missing required parameter.
model_proxy_init(kwargs) ==
    IF DOMAIN kwargs \subseteq InitParameters /\ RequiredParameters \subseteq DOMAIN kwargs
    THEN ReturnedValue(PyDict(kwargs))
    ELSE RaisedValue

\* Proxy(proxy_str=, ps=, ptype=, server=, port=) with the keyword class: an
\* object with the attributes the validator and the writers read, and an
\* empty data dict.
keyword_proxy_init(kwargs) ==
    IF DOMAIN kwargs = {"proxy_str", "ps", "ptype", "server", "port"}
    THEN ReturnedValue([proxy_str |-> kwargs.proxy_str,
                        ps |-> kwargs.ps,
                        type |-> kwargs.ptype,
                        server |-> kwargs.server,
                        port |-> kwargs.port,
                        data |-> PyDict(<<>>)])
    ELSE RaisedValue

new_Proxy(class, kwargs) ==
    IF class = ModelProxy THEN model_proxy_init(kwargs) ELSE keyword_proxy_init(kwargs)

\* proxy_obj.data.update(d)
data_update(proxy_obj, d) == [proxy_obj EXCEPT !.data = PyDict(d.v @@ proxy_obj.data.v)]

\* ------------------------------------------------------ parser: exceptions

\* The result of a call that returns a list of Proxy objects, or raises;
\* records is the list built up to that point.
Returned(list) == [raised |-> FALSE, records |-> list]

Raised(list) == [raised |-> TRUE, records |-> list]

\* A try block with no except clause lets every exception through.
catches_nothing(outcome) == FALSE

\* An except Exception clause takes every exception its try block raises.
catches_Exception(outcome) == outcome.raised

\* ------------------------------------------------------------ parser: YAML

\* The entries the bundle documents of the inputs list, each as the text of a
\* flow mapping or scalar and the value yaml.safe_load gives it: two complete
\* entries, one without server, and one that is a plain string.
EntryA ==
    <<<<"{", "n", "a", "m", "e", ":", " ", "a", ",", " ", "t", "y", "p", "e", ":", " ", "s", "s", ",", " ", "s", "e", "r", "v", "e", "r", ":", " ", "h", ",", " ", "p", "o", "r", "t", ":", " ", "1", ",", " ", "c", "i", "p", "h", "e", "r", ":", " ", "c", ",", " ", "p", "a", "s", "s", "w", "o", "r", "d", ":", " ", "p", "}">>,
      PyDict([name |-> PyStr(<<"a">>), type |-> PyStr(<<"s", "s">>),
              server |-> PyStr(<<"h">>), port |-> PyInt(1),
              cipher |-> PyStr(<<"c">>), password |-> PyStr(<<"p">>)])>>

EntryB ==
    <<<<"{", "n", "a", "m", "e", ":", " ", "b", ",", " ", "t", "y", "p", "e", ":", " ", "h", "t", "t", "p", ",", " ", "s", "e", "r", "v", "e", "r", ":", " ", "g", ",", " ", "p", "o", "r", "t", ":", " ", "2", "}">>,
      PyDict([name |-> PyStr(<<"b">>), type |-> PyStr(<<"h", "t", "t", "p">>),
              server |-> PyStr(<<"g">>), port |-> PyInt(2)])>>

EntryNoServer ==
    <<<<"{", "n", "a", "m", "e", ":", " ", "m", ",", " ", "t", "y", "p", "e", ":", " ", "s", "s", ",", " ", "p", "o", "r", "t", ":", " ", "3", "}">>,
      PyDict([name |-> PyStr(<<"m">>), type |-> PyStr(<<"s", "s">>), port |-> PyInt(3)])>>

EntryString == <<<<"x">>, PyStr(<<"x">>)>>

\* A block sequence under the key proxies, one "- entry" line per entry, and
\* the dict yaml.safe_load makes of it.
RECURSIVE block_sequence(_)
block_sequence(entries) ==
    IF entries = <<>> THEN <<>>
    ELSE <<"-", " ">> \o Head(entries)[1] \o <<"\n">> \o block_sequence(Tail(entries))

ProxiesKey == <<"p", "r", "o", "x", "i", "e", "s", ":">>

bundle(entries) ==
    <<ProxiesKey \o <<"\n">> \o block_sequence(entries),
      PyDict([proxies |-> PyList([k \in DOMAIN entries |-> entries[k][2]])])>>

BundleValid == bundle(<<EntryA, EntryB>>)

BundleMissingField == bundle(<<EntryA, EntryNoServer, EntryB>>)

BundleNotMapping == bundle(<<EntryA, EntryString, EntryB>>)

BundleEntryLists == <<<<EntryA, EntryB>>, <<EntryA, EntryNoServer, EntryB>>,
                      <<EntryA, EntryString, EntryB>>>>

\* Documents whose proxies value is no list of entries: nothing at all (None),
\* an int, a str, an empty list; and a document with the other marker only.
BundleProxiesNone == <<ProxiesKey \o <<"\n">>, PyDict([proxies |-> PyNone])>>

BundleProxiesInt == <<ProxiesKey \o <<" ", "5", "\n">>, PyDict([proxies |-> PyInt(5)])>>

BundleProxiesStr ==
    <<ProxiesKey \o <<" ", "a", "b", "c", "\n">>, PyDict([proxies |-> PyStr(<<"a", "b", "c">>)])>>

BundleProxiesEmpty ==
    <<ProxiesKey \o <<" ", "[", "]", "\n">>, PyDict([proxies |-> PyList(<<>>)])>>

BundleNoProxies ==
    <<<<"p", "r", "o", "x", "y", "-", "g", "r", "o", "u", "p", "s", ":", " ", "[", "]", "\n">>,
      PyDict("proxy-groups" :> PyList(<<>>))>>

\* A text that is no YAML: a flow sequence that never closes.
BundleInvalid == ProxiesKey \o <<" ", "[", "\n">>

\* A mapping whose one key is a descriptor that ends in a marker.
BundleKeyLink ==
    <<<<"s", "s", ":", "/", "/", "Y", "T", "p", "i", "@", "h", ":", "1", "#", "p", "r", "o", "x", "i", "e", "s", ":">>,
      PyDict("ss://YTpi@h:1#proxies" :> PyNone)>>

\* A mapping with an incomplete entry under proxies and a descriptor as its
\* second key.
BundleSkippedThenLink ==
    <<ProxiesKey \o <<"\n", "-", " ">> \o EntryNoServer[1] \o <<"\n">> \o <<"s", "s", ":", "/", "/", "Y", "T", "p", "i", "@", "h", ":", "1", "#", "n", ":", "\n">>,
      PyDict(("proxies" :> PyList(<<EntryNoServer[2]>>)) @@ ("ss://YTpi@h:1#n" :> PyNone))>>

YamlDocuments ==
    <<BundleValid, BundleMissingField, BundleNotMapping, BundleProxiesNone,
      BundleProxiesInt, BundleProxiesStr, BundleProxiesEmpty, BundleNoProxies,
      BundleKeyLink, BundleSkippedThenLink>>

\* yaml.safe_load(content) for the documents above: ok is FALSE for
\* yaml.YAMLError. A text with neither marker never gets here.
yaml_safe_load(text) ==
    IF \E k \in DOMAIN YamlDocuments : YamlDocuments[k][1] = text
    THEN [ok |-> TRUE,
          value |-> YamlDocuments[CHOOSE k \in DOMAIN YamlDocuments :
                                      YamlDocuments[k][1] = text][2]]
    ELSE [ok |-> FALSE, value |-> PyNone]

\* for p_data in x: the items of a list, the characters of a str; TypeError
\* for None and for a number.
py_iter(x) ==
    CASE x.t = "list" -> [ok |-> TRUE, items |-> x.v]
      [] x.t = "str" -> [ok |-> TRUE, items |-> [k \in DOMAIN x.v |-> PyStr(<<x.v[k]>>)]]
      [] x.t \in {"none", "int", "bool"} -> [ok |-> FALSE, items |-> <<>>]

\* s.rstrip('=')
RECURSIVE rstrip_pad(_)
rstrip_pad(s) ==
    IF s # <<>> /\ s[Len(s)] = "=" THEN rstrip_pad(SubSeq(s, 1, Len(s) - 1)) ELSE s

\* base64.urlsafe_b64encode
urlsafe_b64encode(s) == replace(replace(b64encode(s), "+", "-"), "/", "_")

\* The link _parse_yaml_nodes writes for an entry. The entries of the inputs
\* are of kind ss or of a kind that has no branch of its own, so the branches
\* for vmess, trojan, vless, hysteria2 and tuic are not taken.
entry_proxy_str(p_data) ==
    LET proxy_type == dict_get(p_data, "type", PyNone)
        server == py_str(dict_get(p_data, "server", PyNone))
        port == py_str(dict_get(p_data, "port", PyNone))
        cipher == py_str(dict_get(p_data, "cipher", PyStr(<<"a", "u", "t", "o">>)))
        password == py_str(dict_get(p_data, "password", PyStr(<<>>)))
        encoded_creds == rstrip_pad(urlsafe_b64encode(cipher \o <<":">> \o password))
    IN  IF proxy_type = PyStr(<<"s", "s">>)
        THEN <<"s", "s", ":", "/", "/">> \o encoded_creds \o <<"@">> \o server \o <<":">> \o port
                 \o <<"#">> \o py_str(dict_get(p_data, "name", PyStr(<<"S", "S">>)))
        ELSE py_str(proxy_type) \o <<":", "/", "/">> \o server \o <<":">> \o port \o <<"#">>
                 \o py_str(dict_get(p_data, "name", PyStr(<<"U", "n", "k", "n", "o", "w", "n">>)))

\* all([proxy_type, server, port])
entry_complete(p_data) ==
    /\ py_truthy(dict_get(p_data, "type", PyNone))
    /\ py_truthy(dict_get(p_data, "server", PyNone))
    /\ py_truthy(dict_get(p_data, "port", PyNone))

\* Proxy(proxy_str=..., ps=..., ptype=..., server=..., port=...) for an entry
entry_proxy(class, p_data) ==
    LET proxy_type == dict_get(p_data, "type", PyNone)
        server == dict_get(p_data, "server", PyNone)
        port == dict_get(p_data, "port", PyNone)
        default_ps == PyStr(py_str(proxy_type) \o <<"-">> \o py_str(server)
                              \o <<":">> \o py_str(port))
    IN  new_Proxy(class, [proxy_str |-> PyStr(entry_proxy_str(p_data)),
                          ps |-> dict_get(p_data, "name", default_ps),
                          ptype |-> proxy_type,
                          server |-> server,
                          port |-> port])

\* The for loop of _parse_yaml_nodes from entry k on: p_data.get raises
\* AttributeError for an entry that is no mapping, an incomplete entry is
\* skipped, and an exception leaves the loop with the list built so far.
RECURSIVE yaml_entries(_, _, _, _)
yaml_entries(class, items, k, built) ==
    IF k > Len(items) THEN Returned(built)
    ELSE LET p_data == items[k]
             made == entry_proxy(class, p_data)
         IN  IF p_data.t # "dict" THEN Raised(built)
             ELSE IF ~entry_complete(p_data) THEN yaml_entries(class, items, k + 1, built)
             ELSE IF made.raised THEN Raised(built)
             ELSE yaml_entries(class, items, k + 1,
                               Append(built, data_update(made.value, p_data)))

\* ProxyParser._parse_yaml_nodes: its try block, and the two except clauses
\* after which it returns the list built so far.
yaml_attempt(class, loaded) ==
    IF ~loaded.ok THEN Raised(<<>>)
    ELSE IF ~(loaded.value.t = "dict" /\ "proxies" \in DOMAIN loaded.value.v)
    THEN Returned(<<>>)
    ELSE IF ~py_iter(loaded.value.v.proxies).ok THEN Raised(<<>>)
    ELSE yaml_entries(class, py_iter(loaded.value.v.proxies).items, 1, <<>>)

yaml_handled(attempt) ==
    IF attempt.raised /\ ~catches_Exception(attempt) THEN attempt
    ELSE Returned(attempt.records)

parse_yaml_nodes(class, text) == yaml_handled(yaml_attempt(class, yaml_safe_load(text)))

\* ------------------------------------------------- parser: parse_raw_content

\* No line is taken for base64.
looks_like_base64_never(line) == FALSE

\* re.fullmatch(r'^[A-Za-z0-9+/=]+$', line) and len(line) % 4 == 0
looks_like_base64(line) ==
    /\ line # <<>>
    /\ \A k \in DOMAIN line : is_base64_char(line[k]) \/ line[k] = "="
    /\ Len(line) % 4 = 0

\* The decoder the scheme of a line selects, None when it has none. The lines
\* of the inputs are of the schemes ss, vmess and hy2 or of no scheme, so the
\* decoders for trojan, vless and tuic are never called.
scheme_decode(line) ==
    IF startswith(line, <<"s", "s", ":", "/", "/">>) THEN parse_ss(line)
    ELSE IF startswith(line, <<"v", "m", "e", "s", "s", ":", "/", "/">>) THEN parse_vmess(line)
    ELSE IF startswith(line, <<"h", "y", "2", ":", "/", "/">>) THEN parse_hy2(line)
    ELSE PyNone

\* Proxy(proxy_str=proxy_data.get('proxy_str', line), ps=..., ptype=...,
\* server=..., port=...) followed by proxy_obj.data.update(proxy_data)
line_proxy(class, proxy_data, line) ==
    LET made == new_Proxy(class, [proxy_str |-> dict_get(proxy_data, "proxy_str", PyStr(line)),
                                  ps |-> dict_get(proxy_data, "ps", PyNone),
                                  ptype |-> dict_get(proxy_data, "type", PyNone),
                                  server |-> dict_get(proxy_data, "server", PyNone),
                                  port |-> dict_get(proxy_data, "port", PyNone)])
    IN  IF made.raised THEN Raised(<<>>)
        ELSE Returned(<<data_update(made.value, proxy_data)>>)

\* ProxyParser.parse_raw_content, and its loop over the lines from line k on
\* with parsed_proxies as built so far. A line that looks like base64 is
\* decoded and parsed as content of its own; when that raises, the line is
\* tried as a link like any other.
RECURSIVE parse_raw_content(_, _)
RECURSIVE parse_lines(_, _, _, _)

\* A loop that forgets the records of the lines before a line no decoder
\* takes.
parse_link_forgetting(class, lines, k, built, line, proxy_data) ==
    LET made == line_proxy(class, proxy_data, line)
    IN  IF ~py_truthy(proxy_data) THEN parse_lines(class, lines, k + 1, <<>>)
        ELSE IF ~made.raised THEN parse_lines(class, lines, k + 1, built \o made.records)
        ELSE parse_lines(class, lines, k + 1, built)

\* lines 456-488: the decoder of the scheme, and the Proxy object of its dict
parse_link(class, lines, k, built, line, proxy_data) ==
    LET made == line_proxy(class, proxy_data, line)
    IN  IF ~py_truthy(proxy_data) THEN parse_lines(class, lines, k + 1, built)
        ELSE IF ~made.raised THEN parse_lines(class, lines, k + 1, built \o made.records)
        ELSE IF catches_Exception(made) THEN parse_lines(class, lines, k + 1, built)
        ELSE Raised(built)

\* lines 444-454: the try block around the decoding and the recursive call
parse_blob(class, lines, k, built, line, attempt) ==
    IF ~attempt.raised THEN parse_lines(class, lines, k + 1, built \o attempt.records)
    ELSE IF catches_Exception(attempt)
    THEN parse_link(class, lines, k, built, line, scheme_decode(line))
    ELSE Raised(built)

\* lines 437-443: the line stripped, skipped when empty, tested for base64
parse_line(class, lines, k, built, line) ==
    IF line = <<>> THEN parse_lines(class, lines, k + 1, built)
    ELSE IF looks_like_base64(line)
    THEN parse_blob(class, lines, k, built, line,
                    IF b64decode_text(line).ok
                    THEN parse_raw_content(class, strip(b64decode_text(line).text))
                    ELSE Raised(<<>>))
    ELSE parse_link(class, lines, k, built, line, scheme_decode(line))

parse_lines(class, lines, k, built) ==
    IF k > Len(lines) THEN Returned(built)
    ELSE parse_line(class, lines, k, built, strip(lines[k]))

\* A bundle path that is final: its list is returned even when empty.
after_yaml_final(class, text, proxies_from_yaml) == proxies_from_yaml

\* lines 428-432: the bundle path, left with its list when that is not empty
after_yaml(class, text, proxies_from_yaml) ==
    IF proxies_from_yaml.raised THEN proxies_from_yaml
    ELSE IF proxies_from_yaml.records # <<>> THEN proxies_from_yaml
    ELSE parse_lines(class, split(strip(text), "\n"), 1, <<>>)

parse_raw_content(class, text) ==
    IF contains(text, ProxiesKey) \/ contains(text, <<"p", "r", "o", "x", "y", "-", "g", "r", "o", "u", "p", "s", ":">>)
    THEN after_yaml(class, text, parse_yaml_nodes(class, text))
    ELSE parse_lines(class, split(strip(text), "\n"), 1, <<>>)

\* ------------------------------------------------------------ parser: calls

\* The lines of the inputs: the descriptor of the documented example, a short
\* ss descriptor, one with an empty host, one with no port, hy2 and vmess
\* descriptors whose JSON is complete or lacks the server, a word, and a
\* base64 text whose bytes are no UTF-8.
LineExample ==
    <<"s", "s", ":", "/", "/", "Y", "W", "V", "z", "L", "T", "I", "1", "N", "i", "1",
      "n", "Y", "2", "0", "6", "c", "G", "F", "z", "c", "w", "=", "=", "@", "1", ".",
      "2", ".", "3", ".", "4", ":", "8", "3", "8", "8", "#", "T", "e", "s", "t">>

LineSs == <<"s", "s", ":", "/", "/", "Y", "T", "p", "i", "@", "h", ":", "1", "#", "n">>

LineSsNoServer == <<"s", "s", ":", "/", "/", "Y", "T", "p", "i", "@", ":", "1", "#", "n">>

LineSsNoPort == <<"s", "s", ":", "/", "/", "Y", "T", "p", "i", "@", "h", "#", "n">>

hy2_link(json_text) ==
    <<"h", "y", "2", ":", "/", "/">> \o rstrip_pad(urlsafe_b64encode(json_text)) \o <<"#", "n">>

vmess_link(json_text) == <<"v", "m", "e", "s", "s", ":", "/", "/">> \o b64encode(json_text)

LineHy2 == hy2_link(JsonHy2Full)

LineHy2NoServer == hy2_link(JsonHy2NoServer)

LineVmess == vmess_link(JsonVmessFull)

LineVmessNoAdd == vmess_link(JsonVmessNoAdd)

LineWord == <<"h", "e", "l", "l", "o">>

LineNotText == <<"/", "/", "/", "/">>

\* A line that is the base64 of a descriptor.
LineBlob == b64encode(LineSs)

\* The lines that flat lists are made of.
ListLines ==
    <<LineSs, LineSsNoServer, LineHy2NoServer, LineVmess, LineWord, LineNotText, LineBlob>>

\* "\n".join(lines)
RECURSIVE join_lines(_)
join_lines(lines) ==
    IF lines = <<>> THEN <<>>
    ELSE IF Len(lines) = 1 THEN lines[1]
    ELSE lines[1] \o <<"\n">> \o join_lines(Tail(lines))

\* The flat lists of at most MaxLines lines.
FlatLists ==
    {join_lines([k \in DOMAIN f |-> ListLines[f[k]]]) :
        f \in UNION {[1..m -> DOMAIN ListLines] : m \in 0..MaxLines}}

\* A base64 blob whose content is a base64 blob whose content is the list.
NestedBlob == [list \in FlatLists |-> b64encode(b64encode(list))]

\* text under k layers of base64: a blob whose content is a blob, and so on.
RECURSIVE nest(_, _)
nest(text, k) == IF k = 0 THEN text ELSE b64encode(nest(text, k - 1))

\* A descriptor under three and more layers.
DeepBlobs == {nest(LineSs, k) : k \in 3..MaxNesting}

\* The base64 of a descriptor wrapped over two lines of ten characters.
WrappedBlob ==
    SubSeq(b64encode(LineSs), 1, 10) \o <<"\n">> \o SubSeq(b64encode(LineSs), 11, 20)

\* The text that is no YAML, followed by a descriptor on a line of its own.
InvalidThenLink == BundleInvalid \o LineSs

\* The contents a call is made with: flat lists, single lines, blobs in
\* blobs, bundle documents, and a bundle inside a blob.
ParserInputs ==
    FlatLists
    \cup {NestedBlob[list] : list \in FlatLists}
    \cup {LineExample, LineSsNoPort, LineHy2, LineVmessNoAdd, b64encode(LineExample)}
    \cup {YamlDocuments[k][1] : k \in DOMAIN YamlDocuments}
    \cup {BundleInvalid, b64encode(BundleValid[1])}
    \cup DeepBlobs
    \cup {WrappedBlob, InvalidThenLink}

NoOutcome == Returned(<<>>)

ParserIdle ==
    /\ parse_pc = "idle"
    /\ proxy_class = ModelProxy
    /\ parse_content = <<>>
    /\ parse_outcome = NoOutcome

\* A caller is about to call parse_raw_content(content, source_url).
ParserInit ==
    /\ parse_pc = "called"
    /\ proxy_class \in ProxyClasses
    /\ parse_content \in ParserInputs
    /\ parse_outcome = NoOutcome

\* The call runs to its end: it returns a list or an exception leaves it.
parse_call ==
    /\ parse_pc = "called"
    /\ parse_outcome' = parse_raw_content(proxy_class, parse_content)
    /\ parse_pc' = IF parse_outcome'.raised THEN "raised" ELSE "returned"
    /\ UNCHANGED <<proxy_class, parse_content>>
    /\ UNCHANGED parserOthers

ParserNext == parse_call

\* ----------------------------------------------------------------- fetcher

\* What the request of one source can come to: a response with a status and
\* a body, asyncio.TimeoutError, an aiohttp.ClientError, any other exception.
Bodies == {<<>>, <<"s", "s", ":", "/", "/">>}

FetchEvents ==
    [kind : {"response"}, status : {200, 404}, text : Bodies]
    \cup [kind : {"TimeoutError", "ClientError", "Exception"}, status : {0}, text : {<<>>}]

NoEvent == [kind |-> "none", status |-> 0, text |-> <<>>]

\* The result of a task that has not ended.
PendingResult == [t |-> "pending", v |-> <<>>]

\* fetch_url: the text of a response with status 200, None for anything else.
fetch_url(event) ==
    IF event.kind = "response"
    THEN IF event.status = 200 THEN PyStr(event.text) ELSE PyNone
    ELSE PyNone

\* A test that takes every result for a text.
isinstance_str_always(res) == res = res

\* isinstance(result, str)
isinstance_str(res) == res.t = "str"

\* The loop over enumerate(results): a (content, url) pair for every result
\* that is a text, in the order of urls.
fetched_from(res) ==
    LET kept == SelectSeq(ascending(DOMAIN res), LAMBDA i : isinstance_str(res[i]))
    IN  [k \in DOMAIN kept |-> <<res[kept[k]].v, kept[k]>>]

FetcherIdle ==
    /\ fetch_pc = "idle"
    /\ fetch_events = <<>>
    /\ fetch_results = <<>>
    /\ fetched_contents = <<>>
    /\ decoded_pairs = <<>>

\* fetch_all_proxy_sources has created one fetch_url task per configured
\* source and waits in asyncio.gather.
FetcherInit ==
    /\ fetch_pc = "gather"
    /\ fetch_events = [i \in Sources |-> NoEvent]
    /\ fetch_results = [i \in Sources |-> PendingResult]
    /\ fetched_contents = <<>>
    /\ decoded_pairs = <<>>

\* The fetch_url task of source i ends, in any order among the tasks.
fetch_task(i) ==
    /\ fetch_pc = "gather"
    /\ fetch_results[i] = PendingResult
    /\ \E event \in FetchEvents :
           /\ fetch_events' = [fetch_events EXCEPT ![i] = event]
           /\ fetch_results' = [fetch_results EXCEPT ![i] = fetch_url(event)]
    /\ UNCHANGED <<fetch_pc, fetched_contents, decoded_pairs>>
    /\ UNCHANGED fetcherOthers

\* asyncio.gather hands back the results in task order, the loop keeps the
\* texts and fetch_all_proxy_sources returns; main returns on an empty list.
fetch_return ==
    /\ fetch_pc = "gather"
    /\ \A i \in Sources : fetch_results[i] # PendingResult
    /\ fetched_contents' = fetched_from(fetch_results)
    /\ fetch_pc' = IF is_empty(fetched_contents') THEN "returned" ELSE "decode"
    /\ UNCHANGED <<fetch_events, fetch_results, decoded_pairs>>
    /\ UNCHANGED fetcherOthers

\* One turn of main's loop over raw_contents: the pair is handed to
\* parse_raw_content.
fetch_decode ==
    /\ fetch_pc = "decode"
    /\ decoded_pairs' = Append(decoded_pairs, fetched_contents[Len(decoded_pairs) + 1])
    /\ fetch_pc' = IF Len(decoded_pairs') = Len(fetched_contents) THEN "decoded" ELSE "decode"
    /\ UNCHANGED <<fetch_events, fetch_results, fetched_contents>>
    /\ UNCHANGED fetcherOthers

FetcherNext ==
    \/ \E i \in Sources : fetch_task(i)
    \/ fetch_return
    \/ fetch_decode

\* ------------------------------------------------------ transport connection

\* The transport checks of one run, one per record.
Checks == 1..MaxProxies

\* A connection is "open" from asyncio.open_connection on, "closing" once
\* writer.close() was called, and "closed" or "lost" once the event loop has
\* closed the socket: "lost" when that ended with an error, which
\* writer.wait_closed() raises.
ConnectionStates == {"open", "closing", "closed", "lost"}

ConnIdle ==
    /\ conn_pc = <<>>
    /\ writer = <<>>
    /\ connections = <<>>
    /\ conn_result = <<>>
    /\ tearing_down = FALSE

\* _check_tcp_latency has been called for every record.
ConnInit ==
    /\ conn_pc = [i \in Checks |-> "called"]
    /\ writer = [i \in Checks |-> 0]
    /\ connections = <<>>
    /\ conn_result = [i \in Checks |-> "pending"]
    /\ tearing_down = FALSE

\* An open_connection that hands out a connection another check holds.
open_connection_shared(opened) == IF opened = <<>> THEN 1 ELSE Len(opened)

\* asyncio.open_connection: the connection it returns is a new one.
open_connection(opened) == Len(opened) + 1

\* A check that leaves the connection as it got it.
after_connect_unclosed(c) == "open"

\* writer.close(), called in the step in which open_connection returned
after_connect(c) == "closing"

\* lines 35-40: the check starts its connect under asyncio.wait_for.
connect_start(i) ==
    /\ conn_pc[i] = "called"
    /\ conn_pc' = [conn_pc EXCEPT ![i] = "connecting"]
    /\ UNCHANGED <<writer, connections, conn_result, tearing_down>>
    /\ UNCHANGED connOthers

\* lines 47-52: the connect times out or fails; no connection was made.
connect_fails(i) ==
    /\ conn_pc[i] = "connecting"
    /\ \E why \in TcpFailures : conn_result' = [conn_result EXCEPT ![i] = why]
    /\ conn_pc' = [conn_pc EXCEPT ![i] = "ended"]
    /\ UNCHANGED <<writer, connections, tearing_down>>
    /\ UNCHANGED connOthers

\* lines 37-42: open_connection returns, writer is bound, writer.close() is
\* called and the check waits in writer.wait_closed().
connect_succeeds(i) ==
    /\ conn_pc[i] = "connecting"
    /\ writer' = [writer EXCEPT ![i] = open_connection(connections)]
    /\ connections' = [c \in 1..Len(connections) \cup {writer'[i]} |->
                          IF c = writer'[i] THEN after_connect(c) ELSE connections[c]]
    /\ conn_pc' = [conn_pc EXCEPT ![i] = "closing"]
    /\ UNCHANGED <<conn_result, tearing_down>>
    /\ UNCHANGED connOthers

\* The event loop closes the socket of a closing connection, with or
\* without an error.
connection_lost(c) ==
    /\ connections[c] = "closing"
    /\ \E how \in {"closed", "lost"} : connections' = [connections EXCEPT ![c] = how]
    /\ UNCHANGED <<conn_pc, writer, conn_result, tearing_down>>
    /\ UNCHANGED connOthers

\* lines 42-52: writer.wait_closed() returns and the latency is returned, or
\* it raises and except Exception returns None.
wait_closed_done(i) ==
    /\ conn_pc[i] = "closing"
    /\ connections[writer[i]] \in {"closed", "lost"}
    /\ conn_result' = [conn_result EXCEPT ![i] =
                          IF connections[writer[i]] = "closed" THEN "latency" ELSE "error"]
    /\ conn_pc' = [conn_pc EXCEPT ![i] = "ended"]
    /\ UNCHANGED <<writer, connections, tearing_down>>
    /\ UNCHANGED connOthers

\* The caller raised (validator.py:189) and asyncio.run tears the run down.
teardown_starts ==
    /\ ~tearing_down
    /\ tearing_down' = TRUE
    /\ UNCHANGED <<conn_pc, writer, connections, conn_result>>
    /\ UNCHANGED connOthers

\* A suspended check is cancelled: CancelledError passes both except clauses.
\* A connect under way is abandoned; a connection whose close was asked for
\* is left to the event loop.
check_cancelled(i) ==
    /\ tearing_down
    /\ conn_pc[i] \in {"connecting", "closing"}
    /\ conn_result' = [conn_result EXCEPT ![i] = "cancelled"]
    /\ conn_pc' = [conn_pc EXCEPT ![i] = "ended"]
    /\ UNCHANGED <<writer, connections, tearing_down>>
    /\ UNCHANGED connOthers

ConnNext ==
    \/ \E i \in Checks : connect_start(i)
    \/ \E i \in Checks : connect_fails(i)
    \/ \E i \in Checks : connect_succeeds(i)
    \/ \E c \in DOMAIN connections : connection_lost(c)
    \/ \E i \in Checks : wait_closed_done(i)
    \/ teardown_starts
    \/ \E i \in Checks : check_cancelled(i)

\* ---------------------------------------------------------- specifications

RestIdle == KeyIdle /\ MainIdle /\ ParserIdle /\ FetcherIdle /\ ConnIdle

Init == ProberInit /\ DedupIdle /\ RestIdle

Next == ProberNext

Spec == Init /\ [][Next]_vars

\* The prober run by the event loop: a task that can take a step is run in
\* the end, and every connect and every GET ends (wait_for and the request
\* timeout see to it), so the run does not stop while a step is possible.
FairSpec == Init /\ [][Next]_vars /\ WF_vars(Next)

DedupStart == DedupInit /\ ProberIdle /\ RestIdle

DedupSpec == DedupStart /\ [][DedupNext]_vars

KeyStart == KeyInit /\ ProberIdle /\ DedupIdle /\ MainIdle /\ ParserIdle /\ FetcherIdle /\ ConnIdle

KeySpec == KeyStart /\ [][KeyNext]_vars

RankStart == RankInit /\ ProberIdle /\ DedupIdle /\ KeyIdle /\ ParserIdle /\ FetcherIdle /\ ConnIdle

RankSpec == RankStart /\ [][RankNext]_vars

MainStart == MainInit /\ ProberIdle /\ DedupIdle /\ KeyIdle /\ ParserIdle /\ FetcherIdle /\ ConnIdle

MainSpec == MainStart /\ [][MainNext]_vars

ParserStart == ParserInit /\ ProberIdle /\ DedupIdle /\ KeyIdle /\ MainIdle /\ FetcherIdle /\ ConnIdle

ParserSpec == ParserStart /\ [][ParserNext]_vars

FetcherStart == FetcherInit /\ ProberIdle /\ DedupIdle /\ KeyIdle /\ MainIdle /\ ParserIdle /\ ConnIdle

FetcherSpec == FetcherStart /\ [][FetcherNext]_vars

ConnStart ==
    ConnInit /\ ProberIdle /\ DedupIdle /\ KeyIdle /\ MainIdle /\ ParserIdle /\ FetcherIdle

ConnSpec == ConnStart /\ [][ConnNext]_vars

TypeOK ==
    /\ semaphore \in 0..config.MAX_CONCURRENT_CHECKS
    /\ caller \in {"collecting", "returned", "raised"}

\* ------------------------------------------------------------------ claims

\* Tasks whose check (validate_proxy) has started and not yet finished.
checks_in_progress == {i \in Tasks : pc[i] \in {"tcp", "http"}}

\* Tasks that hold a permit of the gate.
permit_holders == {i \in Tasks : pc[i] \in InFlightPcs}

in_results(i) == \E k \in DOMAIN results : results[k] = i

\* C1: at no time are more than MAX_CONCURRENT_CHECKS checks in progress.
C1_BoundedConcurrency ==
    Cardinality(checks_in_progress) <= config.MAX_CONCURRENT_CHECKS

\* The gate is full and a further task is kept waiting (more records than permits).
C1_Witness ==
    /\ Cardinality(checks_in_progress) = config.MAX_CONCURRENT_CHECKS
    /\ \E i \in Tasks : pc[i] = "waiting"

\* C2: every permit taken is given back exactly once, on every exit path:
\* free permits + permit holders = ceiling, and once every task has ended all
\* permits are free.
C2_GateReleased ==
    /\ semaphore + Cardinality(permit_holders) = config.MAX_CONCURRENT_CHECKS
    /\ (\A i \in Tasks : pc[i] = "done") => semaphore = config.MAX_CONCURRENT_CHECKS

\* All tasks have ended, one by an exception raised inside validate_proxy, one
\* with a live record, one with a failed check.
C2_Witness ==
    /\ \A i \in Tasks : pc[i] = "done"
    /\ \E i \in Tasks : result[i] = "exception"
    /\ \E i \in Tasks : result[i] \in {"proxy", "None"}
    /\ semaphore = config.MAX_CONCURRENT_CHECKS

\* C3: a record whose transport check failed is never in the output, and the
\* output holds only records of the input, each at most once.
C3_TransportFailureDropped ==
    /\ \A i \in Tasks : tcp[i] \in TcpFailures => ~in_results(i)
    /\ \A k \in DOMAIN results : results[k] \in Tasks
    /\ \A k, l \in DOMAIN results : results[k] = results[l] => k = l

\* The prober returned a non-empty output although one transport check failed.
C3_Witness ==
    /\ caller = "returned"
    /\ results # <<>>
    /\ \E i \in Tasks : tcp[i] \in TcpFailures

\* The record passed the transport check and, when the application check is
\* enabled, the application check too.
passed_checks(i) ==
    /\ tcp[i] = "ok"
    /\ config.ENABLE_HTTP_CHECK = "True" =>
           (http_access_ok(http[i]) \/ http[i] \in {"skipped", "unchecked"})

\* C4: once a record's check has ended, its latency is present if and only if
\* the record passed its checks.
C4_LatencyIffPassed ==
    \A i \in Tasks : pc[i] = "done" => (delay[i] = "set" <=> passed_checks(i))

\* C5: every record of the output carries a latency and a last-checked timestamp.
C5_OutputAnnotated ==
    caller = "returned" =>
        \A i \in Tasks : in_results(i) => (delay[i] = "set" /\ last_checked[i] = "set")

\* C6: whatever happens to its siblings, a record whose own checks succeeded is
\* in the result validate_proxies_concurrently returns.
C6_SiblingsUnaffected ==
    \A j \in Tasks :
        (result[j] = "proxy" /\ caller # "collecting") =>
            (caller = "returned" /\ in_results(j))

\* C7: with the application check enabled, a record of a tunnelling kind is
\* accepted by its check, and is in the output the prober returns, if and only
\* if its transport check succeeded; no request is ever made for it.
C7_TunnelKindsPassThrough ==
    config.ENABLE_HTTP_CHECK = "True" =>
        \A i \in Tasks : proxies[i].type \in TunnelTypes =>
            /\ http[i] \in {"none", "skipped"}
            /\ pc[i] = "done" => (result[i] = "proxy" <=> tcp[i] = "ok")
            /\ caller = "returned" => (in_results(i) <=> tcp[i] = "ok")

\* The prober returned; one tunnelling record is in the output, another failed
\* its transport check.
C7_Witness ==
    /\ config.ENABLE_HTTP_CHECK = "True"
    /\ caller = "returned"
    /\ \E i \in Tasks : proxies[i].type \in TunnelTypes /\ in_results(i)
    /\ \E i \in Tasks : proxies[i].type \in TunnelTypes /\ tcp[i] \in TcpFailures

\* Responses with a 2xx status.
Status2xx == {"status_200", "status_204"}

\* C8 as stated: with the application check enabled, a forward-proxy record is
\* in the output only if its GET ended with a 2xx status.
C8_ForwardProxyNeedsResponse ==
    (config.ENABLE_HTTP_CHECK = "True" /\ caller = "returned") =>
        \A i \in Tasks :
            (proxies[i].type \in ForwardProxyTypes /\ in_results(i)) =>
                http[i] \in Status2xx

\* C8 as amended: the same for http and https records, and for socks5 records
\* when the SOCKS connector is installed; a response outside 2xx, a timeout or a
\* connection error drops the record.
C8_ForwardProxyNeedsResponseOrNoConnector ==
    (config.ENABLE_HTTP_CHECK = "True" /\ caller = "returned") =>
        \A i \in Tasks : proxies[i].type \in ForwardProxyTypes =>
            /\ (in_results(i) /\ ~(proxies[i].type = "socks5" /\ ProxyConnector = "None"))
                   => http[i] \in Status2xx
            /\ http[i] \in {"status_404", "timeout", "error"} => ~in_results(i)

\* The prober returned; one forward-proxy record is in the output after its
\* GET, another was dropped by a failed GET, and a socks5 record is in the
\* output without any request.
C8_Witness ==
    /\ config.ENABLE_HTTP_CHECK = "True"
    /\ caller = "returned"
    /\ \E i \in Tasks : /\ proxies[i].type \in ForwardProxyTypes
                        /\ in_results(i)
                        /\ http[i] = "status_200"
    /\ \E i \in Tasks : /\ proxies[i].type \in ForwardProxyTypes
                        /\ http[i] \in {"status_404", "timeout", "error"}

key_at(list, i) == generate_key(list[i].fields)

\* The positions of list that hold the first occurrence of their key.
first_positions(list) ==
    {i \in DOMAIN list : \A j \in 1..(i - 1) : key_at(list, j) # key_at(list, i)}

\* The subsequence of list at the positions in S, from position i on.
RECURSIVE subsequence_from(_, _, _)
subsequence_from(list, S, i) ==
    IF i > Len(list) THEN <<>>
    ELSE (IF i \in S THEN <<list[i]>> ELSE <<>>) \o subsequence_from(list, S, i + 1)

\* C9: deduplicate_proxies returns the subsequence of first occurrences per
\* key: order kept, no key twice, every key of the input present.
C9_FirstOccurrences ==
    dedup_pc = "returned" =>
        /\ deduplicated = subsequence_from(dedup_proxies, first_positions(dedup_proxies), 1)
        /\ \A k, l \in DOMAIN deduplicated :
               key_at(deduplicated, k) = key_at(deduplicated, l) => k = l
        /\ \A i \in DOMAIN dedup_proxies :
               \E k \in DOMAIN deduplicated :
                   key_at(deduplicated, k) = key_at(dedup_proxies, i)

\* The call on the input returned: a later duplicate was dropped from between
\* records that were kept.
C9_Witness ==
    /\ dedup_pc = "returned"
    /\ call_no = 1
    /\ Len(dedup_proxies) = 3
    /\ Len(deduplicated) = 2
    /\ key_at(dedup_proxies, 1) = key_at(dedup_proxies, 2)

\* C10: running deduplicate_proxies on its own output changes nothing.
C10_Idempotent ==
    (call_no = 2 /\ dedup_pc = "returned") => deduplicated = first_result

\* The second call returned, on a first result of two or more records.
C10_Witness ==
    /\ call_no = 2
    /\ dedup_pc = "returned"
    /\ Len(first_result) >= 2
    /\ deduplicated = first_result

\* --------------------------------------------------------------- claim C11

\* The fields the identity of an endpoint rests on: protocol kind, host, port
\* and the credentials.
same_endpoint(a, b) ==
    /\ a.proxy_type = b.proxy_type
    /\ a.server = b.server
    /\ a.port = b.port
    /\ a.uuid = b.uuid
    /\ a.password = b.password
    /\ a.cipher = b.cipher

kept(i) == \E k \in DOMAIN deduplicated : deduplicated[k].obj = i

\* C11: two records with the same protocol kind, host, port and credentials
\* but different display names have the same identity key, and
\* deduplicate_proxies returns only the first of them.
C11_NameNotInKey ==
    \A i, j \in DOMAIN dedup_proxies :
        (i < j /\ same_endpoint(dedup_proxies[i].fields, dedup_proxies[j].fields))
            => /\ key_at(dedup_proxies, i) = key_at(dedup_proxies, j)
               /\ (dedup_pc = "returned" /\ call_no = 1) => ~kept(j)

\* --------------------------------------------------------------- claim C12

\* The disambiguator of a record by protocol kind; toggle is the
\* trojan-password-in-identity setting.
disambiguator(p, toggle) ==
    IF p.proxy_type = <<"v", "m", "e", "s", "s">> THEN p.uuid
    ELSE IF p.proxy_type = <<"t", "r", "o", "j", "a", "n">> /\ toggle THEN p.password
    ELSE NoneValue

agree_on_identity(a, b, toggle) ==
    /\ a.proxy_type = b.proxy_type
    /\ a.server = b.server
    /\ a.port = b.port
    /\ disambiguator(a, toggle) = disambiguator(b, toggle)

\* C12: whatever the trojan-password toggle, two records that agree on
\* protocol kind, host, port and the disambiguator of their kind have the same
\* identity key; with the toggle off, two trojan records that differ only in
\* the password have the same key.
C12_KeyFromIdentityFieldsOnly ==
    Len(key_values) = 2 =>
        \A toggle \in BOOLEAN :
            agree_on_identity(key_records[1], key_records[2], toggle)
                => key_values[1] = key_values[2]

\* --------------------------------------------------------------- claim C13

position_in(list, p) == CHOOSE k \in DOMAIN list : list[k] = p

ranked == main_pc \in {"cap", "write"}

\* C13: the ranking step never raises, and once it has run sorted_proxies
\* holds exactly the records of validated_proxies whose delay is defined,
\* each once, in ascending order of delay, records of equal delay in the order
\* they had in validated_proxies.
C13_RankedByLatency ==
    /\ main_pc # "raised"
    /\ ranked =>
        /\ \A k \in DOMAIN validated_proxies :
               (validated_proxies[k].delay # None)
                   <=> (\E m \in DOMAIN sorted_proxies :
                            sorted_proxies[m] = validated_proxies[k])
        /\ \A m \in DOMAIN sorted_proxies :
               \E k \in DOMAIN validated_proxies :
                   sorted_proxies[m] = validated_proxies[k]
        /\ \A m, n \in DOMAIN sorted_proxies :
               m < n =>
                   /\ sorted_proxies[m] # sorted_proxies[n]
                   /\ sorted_proxies[m].delay[1] <= sorted_proxies[n].delay[1]
                   /\ (sorted_proxies[m].delay = sorted_proxies[n].delay
                          => position_in(validated_proxies, sorted_proxies[m])
                             < position_in(validated_proxies, sorted_proxies[n]))

\* A list with a record of undefined delay, a tie and a pair out of order has
\* been ranked.
C13_Witness ==
    /\ ranked
    /\ Len(validated_proxies) = 3
    /\ validated_proxies[1].delay = <<30>>
    /\ validated_proxies[2].delay = None
    /\ validated_proxies[3].delay = <<10>>
    /\ Len(sorted_proxies) = 2
    /\ sorted_proxies[1].obj = 3

\* A list with two records of equal delay has been ranked.
C13_TieWitness ==
    /\ ranked
    /\ \E m, n \in DOMAIN sorted_proxies :
           m < n /\ sorted_proxies[m].delay = sorted_proxies[n].delay

\* --------------------------------------------------------------- claim C14

\* C14: when config.TOP_N_PROXIES is set and positive, output_proxies is the
\* first min(TOP_N_PROXIES, n) records of the n in sorted_proxies; when it is
\* None, zero or negative, output_proxies is sorted_proxies.
C14_CapIsLeadingSlice ==
    main_pc = "write" =>
        LET n == Len(sorted_proxies)
            cap == top_n_proxies
            size == IF cap # None /\ cap[1] > 0
                    THEN (IF cap[1] < n THEN cap[1] ELSE n)
                    ELSE n
        IN  /\ Len(output_proxies) = size
            /\ \A k \in 1..size : output_proxies[k] = sorted_proxies[k]

\* A cap of 1 has cut a ranked list of two or more.
C14_Witness ==
    /\ main_pc = "write"
    /\ top_n_proxies = <<1>>
    /\ Len(sorted_proxies) >= 2
    /\ Len(output_proxies) = 1

\* --------------------------------------------------------------- claim C15

StageOrder == <<"fetch", "decode", "dedup", "probe", "rank", "write">>

\* The stage numbered k has been run and has produced a list, empty when the second argument holds.
produced(k, empty) == Len(stages) >= k /\ empty

\* The run has ended by return right after stage k.
ended_after(k) == main_pc = "returned" /\ stages = SubSeq(StageOrder, 1, k)

\* C15: the stages main has called are always a leading part of fetch, decode,
\* dedup, probe, rank, write; and once fetch, decode, dedup or probe has
\* produced an empty list, main has returned without raising and without
\* calling any later stage, the writers included. (A probe that raises
\* produces no list; main then ends by that exception.)
C15_StagesInOrderEmptyEndsRun ==
    /\ Len(stages) <= Len(StageOrder)
    /\ stages = SubSeq(StageOrder, 1, Len(stages))
    /\ produced(1, raw_contents = <<>>) => ended_after(1)
    /\ produced(2, all_proxies = <<>>) => ended_after(2)
    /\ produced(3, deduplicated_proxies = <<>>) => ended_after(3)
    /\ produced(4, validated_proxies = <<>>) =>
           \/ ended_after(4)
           \/ main_pc = "raised" /\ stages = SubSeq(StageOrder, 1, 4)

\* The probe has handed back an empty list and main has returned.
C15_Witness ==
    /\ ended_after(4)
    /\ deduplicated_proxies # <<>>
    /\ validated_proxies = <<>>

\* Every stage has been called.
C15_FullRunWitness == stages = StageOrder

\* --------------------------------------------------------------- claim C16

\* C16: parse_raw_content never raises. Whatever the content (malformed
\* lines, bad base64, text that is no YAML, a bundle whose proxies value or
\* entries have the wrong shape, descriptors with fields missing), the call
\* ends by returning a list, never by an exception.
C16_NeverRaises ==
    /\ parse_pc # "raised"
    /\ ~parse_outcome.raised

\* A call has returned for a bundle with an entry that is no mapping, where
\* the loop over the entries was left by an exception.
C16_Witness ==
    /\ parse_pc = "returned"
    /\ parse_content = BundleNotMapping[1]
    /\ yaml_attempt(proxy_class, yaml_safe_load(parse_content)).raised

\* --------------------------------------------------------------- claim C17

\* An entry of a bundle is well formed when it is a mapping with a type, a
\* server and a port; it has yielded its record when the returned list holds
\* a Proxy object made from it.
well_formed(entry) == entry.t = "dict" /\ entry_complete(entry)

yields_record(entry, records) == \E i \in DOMAIN records : records[i].data = entry

some_malformed(entries) == \E e \in DOMAIN entries : ~well_formed(entries[e][2])

\* C17: when a bundle lists several entries and some of them are malformed
\* (a field missing, or no mapping at all), every well-formed entry of the
\* bundle, before or after the malformed one, still yields its record.
C17_WellFormedEntriesKept ==
    \A b \in DOMAIN BundleEntryLists :
        (/\ parse_pc = "returned"
         /\ some_malformed(BundleEntryLists[b])
         /\ parse_content = bundle(BundleEntryLists[b])[1])
        => \A e \in DOMAIN BundleEntryLists[b] :
               well_formed(BundleEntryLists[b][e][2])
               => yields_record(BundleEntryLists[b][e][2], parse_outcome.records)

\* --------------------------------------------------------------- claim C18

is_example_record(record) ==
    /\ record.type = PyStr(<<"s", "s">>)
    /\ record.server = PyStr(<<"1", ".", "2", ".", "3", ".", "4">>)
    /\ record.port = PyInt(8388)
    /\ record.data.v.cipher = PyStr(<<"a", "e", "s", "-", "2", "5", "6", "-", "g", "c", "m">>)
    /\ record.data.v.password = PyStr(<<"p", "a", "s", "s">>)
    /\ record.ps = PyStr(<<"T", "e", "s", "t">>)

\* C19: the single-line blob ss://YWVzLTI1Ni1nY206cGFzcw==@1.2.3.4:8388#Test
\* decodes to exactly one record, and that record is the one above.
C19_ExampleDecodesToOneRecord ==
    (parse_pc # "called" /\ parse_content = LineExample)
    => /\ parse_pc = "returned"
       /\ Len(parse_outcome.records) = 1
       /\ is_example_record(parse_outcome.records[1])

\* --------------------------------------------------------------- claim C20

\* A field is present when it is neither None nor empty.
record_complete(record) ==
    /\ py_truthy(record.type)
    /\ py_truthy(record.server)
    /\ py_truthy(record.port)

fetch_succeeded(i) ==
    /\ fetch_events[i].kind = "response"
    /\ fetch_events[i].status = 200

\* The pairs of the sources whose fetch succeeded, in the order of the list.
succeeded_pairs ==
    LET good == SelectSeq(ascending(Sources), LAMBDA i : fetch_succeeded(i))
    IN  [k \in DOMAIN good |-> <<fetch_events[good[k]].text, good[k]>>]

\* C21: once fetch_all_proxy_sources has returned, its list holds exactly one
\* (content, url) pair for each source whose fetch succeeded, in the order of
\* the source list, whatever the other sources came to; and when main's loop
\* has ended it has handed exactly these pairs to the parser, in this order.
C21_FailedSourceContributesNothing ==
    /\ fetch_pc \in {"decode", "decoded", "returned"} => fetched_contents = succeeded_pairs
    /\ fetch_pc = "decoded" => decoded_pairs = succeeded_pairs

\* A run in which the first source failed, the second succeeded, and main
\* has decoded the one pair.
C21_Witness ==
    /\ fetch_pc = "decoded"
    /\ ~fetch_succeeded(1)
    /\ fetch_succeeded(2)
    /\ decoded_pairs = <<<<fetch_events[2].text, 2>>>>

\* ---------------------------------------------------------------------- C22

\* The blob taken as one unit: its characters without the whitespace that
\* wraps it over lines.
whole_blob(text) == SelectSeq(text, LAMBDA c : c \notin Whitespace)

\* The whole blob plausibly decodes as base64: it is of the base64 alphabet,
\* its length is a multiple of four and its bytes are a text.
plausibly_base64(text) ==
    /\ looks_like_base64(whole_blob(text))
    /\ b64decode_text(whole_blob(text)).ok

\* The records found in the text the whole blob decodes to.
records_of_whole(class, text) ==
    parse_raw_content(class, strip(b64decode_text(whole_blob(text)).text)).records

C23_ChecksEndAndCallEnds ==
    <>((\A i \in Tasks : pc[i] = "done") /\ caller \in {"returned", "raised"})

\* No state is stuck at the gate: while the call collects and a task waits
\* for a permit, a permit is free or a task that holds one can go on.
C23_NoTaskStuckAtGate ==
    (caller = "collecting" /\ \E i \in Tasks : pc[i] = "waiting")
    => (permit_free \/ \E j \in Tasks : pc[j] \in InFlightPcs)

\* C23: for every input list and every ceiling, under the fair scheduler and
\* with every connect and request ending, validate_proxies_concurrently
\* eventually returns.
C23_EventuallyReturns == <>(caller = "returned")

\* ---------------------------------------------------------------------- C24

\* What one step may do to the phases of record i: a connect starts only
\* where none was made, a request starts only where none was made and only
\* in the step that sees the connect succeed, the outcome of a phase is
\* final, and a task that has ended stays ended.
checked_once_step(i) ==
    /\ (tcp'[i] = "connecting" /\ tcp[i] # "connecting") => tcp[i] = "none"
    /\ tcp[i] \notin {"none", "connecting"} => tcp'[i] = tcp[i]
    /\ (http'[i] = "requesting" /\ http[i] # "requesting")
           => (http[i] = "none" /\ tcp[i] = "connecting" /\ tcp'[i] = "ok")
    /\ http[i] \notin {"none", "requesting"} => http'[i] = http[i]
    /\ pc[i] = "done" => pc'[i] = "done"

\* C24: in one run of validate_proxies_concurrently each record gets at most
\* one connection attempt and at most one application request, the request
\* starts only after the connect of that record succeeded, and no phase is
\* tried again after it failed or timed out.
C24_EachRecordCheckedOnce == [][\A i \in Tasks : checked_once_step(i)]_vars

\* A returned run of two records: the connect of one timed out, the other
\* connected and its request timed out.
C24_Witness ==
    /\ caller = "returned"
    /\ Len(proxies) = 2
    /\ tcp[1] = "timeout" /\ http[1] = "none"
    /\ tcp[2] = "ok" /\ http[2] = "timeout"

\* ---------------------------------------------------------------------- C25

\* C25: no transport check has ended while the connection it opened is still
\* open: its close was called on every way out, and when the check ended of
\* itself (latency or error after the connect) the socket is closed; and no
\* two checks hold the same connection.
C25_ConnectionClosedAndUnshared ==
    /\ \A i \in Checks :
           (conn_pc[i] = "ended" /\ writer[i] # 0)
           => /\ connections[writer[i]] # "open"
              /\ conn_result[i] # "cancelled" => connections[writer[i]] \in {"closed", "lost"}
    /\ \A i, j \in Checks : (i # j /\ writer[i] # 0) => writer[i] # writer[j]
    /\ \A c \in DOMAIN connections : \E i \in Checks : writer[i] = c

\* Every way out after a connect has been taken: one check returned its
\* latency, the other met an error while closing.
C25_Witness ==
    /\ \A i \in Checks : conn_pc[i] = "ended"
    /\ conn_result[1] = "latency"
    /\ conn_result[2] = "error" /\ writer[2] # 0

\* A check cancelled while it waited for its connection to close.
C25_CancelledWitness ==
    \E i \in Checks :
        conn_pc[i] = "ended" /\ conn_result[i] = "cancelled" /\ writer[i] # 0

\* ---------------------------------------------------------------------- C26

\* The text holds one of the two bundle markers.
has_marker(text) ==
    \/ contains(text, ProxiesKey)
    \/ contains(text, <<"p", "r", "o", "x", "y", "-", "g", "r", "o", "u", "p", "s", ":">>)

\* The records of each non-empty trimmed line decoded on its own, put
\* together in line order.
RECURSIVE lines_one_by_one(_, _)
lines_one_by_one(class, lines) ==
    IF lines = <<>> THEN <<>>
    ELSE (IF strip(Head(lines)) = <<>> THEN <<>>
          ELSE parse_raw_content(class, strip(Head(lines))).records)
         \o lines_one_by_one(class, Tail(lines))

C26_OrderWitness ==
    /\ parse_pc = "returned"
    /\ parse_content = join_lines(<<LineVmess, LineSs>>)
    /\ Len(parse_outcome.records) = 2
    /\ parse_outcome.records[1].type = PyStr(<<"v", "m", "e", "s", "s">>)
    /\ parse_outcome.records[2].type = PyStr(<<"s", "s">>)

\* ---------------------------------------------------------------------- C27

\* The number of base64 layers parse_raw_content takes off the text on its
\* way down: 0 when no line of it is decoded, else one more than the deepest
\* of the contents its lines decode to. A content whose bundle path returns
\* records is not looked at line by line.
RECURSIVE unwrap_depth(_, _)
RECURSIVE deepest_line(_, _, _)
deepest_line(class, lines, k) ==
    IF k > Len(lines) THEN 0
    ELSE LET line == strip(lines[k])
             here == IF looks_like_base64(line) /\ b64decode_text(line).ok
                     THEN 1 + unwrap_depth(class, strip(b64decode_text(line).text))
                     ELSE 0
             rest == deepest_line(class, lines, k + 1)
         IN  IF here > rest THEN here ELSE rest

unwrap_depth(class, text) ==
    IF has_marker(text) /\ parse_yaml_nodes(class, text).records # <<>> THEN 0
    ELSE deepest_line(class, split(strip(text), "\n"), 1)

\* C27: the unwrapping stops at a small fixed depth, so that content nested
\* deeper is not unwrapped further: the depth a call unwraps to stays below
\* the deepest nesting it is given.
C27_UnwrapDepthBounded ==
    parse_pc = "returned" => unwrap_depth(proxy_class, parse_content) < MaxNesting

\* ---------------------------------------------------------------------- C28

\* What the line-oriented path makes of the blob.
line_path(class, text) == parse_lines(class, split(strip(text), "\n"), 1, <<>>)

C28_SkippedWitness ==
    /\ parse_pc = "returned"
    /\ parse_content = BundleSkippedThenLink[1]
    /\ Len(parse_outcome.records) = 1
    /\ parse_outcome.records[1].type = PyStr(<<"s", "s">>)

\* A returned call on a document with two complete entries: the two bundle
\* records, and nothing from its lines.
C28_BundleWitness ==
    /\ parse_pc = "returned"
    /\ parse_content = BundleValid[1]
    /\ Len(parse_outcome.records) = 2
    /\ parse_outcome = parse_yaml_nodes(proxy_class, parse_content)

====
